---- MODULE Spec2Model ----
(***************************************************************************)
(* Assessment lifecycle of the training backend: attempt creation, answer  *)
(* capture with auto-grading, submission, manual grading and the teacher   *)
(* approval gate.  The store is the relational schema of the Prisma        *)
(* migrations; every route handler is one action (Spec) or a sequence of   *)
(* store statements that interleave with other requests (SpecConc).        *)
(*                                                                         *)
(* Abstractions: timestamps (startTime, endTime, checkedAt) are kept only  *)
(* as set / not set; percentages are integers in hundredths (5000 is       *)
(* 50.00); a SubmissionAnswer row is identified by its unique key          *)
(* (submissionId, questionId) instead of its serial id.                    *)
(***************************************************************************)
EXTENDS Integers, Sequences, FiniteSets, TLC

VARIABLES
  assessment,   \* the assessment row (id 1)
  enrollments,  \* set of user ids enrolled in the assessment's course
  submissions,  \* sequence of assessment_submissions rows, id = index
  answers,      \* set of submission_answers rows
  resp,         \* the request and response of the last handler that ran
  reqs,         \* per slot, the request in flight between two store statements
  users,        \* User rows: user id |-> roleId (NoId for a null roleId)
  roleCapabilities  \* RoleCapability rows: <<roleId, capability name>>

vars == <<assessment, enrollments, submissions, answers, resp, reqs, users,
          roleCapabilities>>

store == <<assessment, enrollments, submissions, answers>>

access == <<users, roleCapabilities>>

----------------------------------------------------------------------------
(* Bounds *)

\* Largest attempts limit of the assessment where answers are saved and
\* graded (Spec, SpecAdmin, SpecConc).
MaxAttempts == 1

\* Largest attempts limit of the assessment where attempts are only started,
\* submitted and approved (SpecAttempts).
MaxRetakes == 2

\* Largest number of requests in flight at once (SpecConc).
MaxInFlight == 2

----------------------------------------------------------------------------
(* Identifiers and input domains *)

NoId == 0

NoText == "null"

Undefined == "undefined"

\* A startDate / endDate that is not set.
NoDate == 0

\* Instants: of the clock read by a request, and of a set startDate or
\* endDate.
Times == {1, 2, 3}

Students == {1, 2}

Teachers == {9}

AssessmentIds == {1, 2}

QuestionIds == {1, 2}

OptionIds == {1, 2}

\* marksObtained values sent to the grade route: below range, zero, partial,
\* full and above range for a 5-mark question.
GradeInputs == {-1, 0, 2, 5, 6}

\* totalMarks values sent to the assessment update route (0 is falsy).
TotalMarksInputs == {0, 15, 30}

\* A question of the assessment that was switched off, with its one option.
RetiredQuestionIds == {3}

RetiredOptionIds == {3}

\* A question of assessment 2, with its one option.
ForeignQuestionIds == {5}

ForeignOptionIds == {4}

\* questions table: one 5-mark choice question, one 5-mark long answer and
\* an inactive 2-mark true/false question of assessment 1; a 15-mark
\* true/false question of assessment 2.
Questions ==
  [q \in QuestionIds \cup RetiredQuestionIds \cup ForeignQuestionIds |->
     IF q = 1
       THEN [assessmentId |-> 1, questionType |-> "MULTIPLE_CHOICE",
             marks |-> 5, order |-> 1, isActive |-> TRUE]
     ELSE IF q = 2
       THEN [assessmentId |-> 1, questionType |-> "LONG_ANSWER",
             marks |-> 5, order |-> 2, isActive |-> TRUE]
     ELSE IF q \in RetiredQuestionIds
       THEN [assessmentId |-> 1, questionType |-> "TRUE_FALSE",
             marks |-> 2, order |-> 3, isActive |-> FALSE]
     ELSE [assessmentId |-> 2, questionType |-> "TRUE_FALSE",
           marks |-> 15, order |-> 1, isActive |-> TRUE]]

\* question_options table: options 1 and 2 belong to question 1, shown as
\* (2, 1), and option 2 is the correct one; option 3 is the correct option
\* of the inactive question, option 4 the correct option of the question of
\* assessment 2.  Each option's text is its own.
OptionText(o) == <<"option", o>>

Options ==
  [o \in OptionIds \cup RetiredOptionIds \cup ForeignOptionIds |->
     IF o \in OptionIds
       THEN [questionId |-> 1, optionText |-> OptionText(o),
             isCorrect |-> (o = 2), order |-> 3 - o]
     ELSE IF o \in RetiredOptionIds
       THEN [questionId |-> 3, optionText |-> OptionText(o),
             isCorrect |-> TRUE, order |-> 1]
     ELSE [questionId |-> 5, optionText |-> OptionText(o),
           isCorrect |-> TRUE, order |-> 1]]

IsChoice(q) ==
  Questions[q].questionType \in {"MULTIPLE_CHOICE", "TRUE_FALSE"}

IsFreeText(q) ==
  Questions[q].questionType \in {"SHORT_ANSWER", "LONG_ANSWER"}

\* Request bodies of save-answer: a choice for a choice question, a text
\* (or an explicit null) for a free-text question; the other key is absent.
SaveInputs(q) ==
  IF IsChoice(q)
    THEN {<<o, Undefined>> : o \in {o \in OptionIds : Options[o].questionId = q}}
    ELSE {<<-1, "text">>, <<-1, NoText>>}

----------------------------------------------------------------------------
(* Pure helpers *)

RECURSIVE SumMarks(_)
\* answers.reduce((total, answer) => total + (answer.marksObtained || 0), 0)
SumMarks(S) ==
  IF S = {} THEN 0
  ELSE LET x == CHOOSE y \in S : TRUE
       IN x.marksObtained + SumMarks(S \ {x})

\* parseFloat(((obtained / total) * 100).toFixed(2)), in hundredths, total > 0
Percentage(obtained, total) ==
  (2 * 10000 * obtained + total) \div (2 * total)

\* A strict pass mark, as if the routes compared with `>`.
IsPassed_Strict(obtained, passingMarks) == obtained > passingMarks

\* obtainedMarks >= assessment.passingMarks
IsPassed(obtained, passingMarks) == obtained >= passingMarks

AnswersOf(ans, sid) == {x \in ans : x.submissionId = sid}

Row(ans, sid, qid) == {x \in ans : x.submissionId = sid /\ x.questionId = qid}

\* prisma.assessmentSubmission.count({ where: { assessmentId, userId } })
CountAttempts(subs, a, u) ==
  Cardinality({i \in DOMAIN subs :
                 subs[i].assessmentId = a /\ subs[i].userId = u})

\* prisma.assessmentSubmission.findFirst({ where: { assessmentId, userId,
\* status: 'IN_PROGRESS' } }): the id of the first such row, NoId if none.
FindInProgress(subs, a, u) ==
  LET S == {i \in DOMAIN subs :
              /\ subs[i].assessmentId = a
              /\ subs[i].userId = u
              /\ subs[i].status = "IN_PROGRESS"}
  IN IF S = {} THEN NoId ELSE CHOOSE i \in S : \A j \in S : i <= j

\* An off-by-one limit check, as if the route compared with `>`.
AttemptsExceeded_OffByOne(n, attempts) == n > attempts

\* existingAttempts >= assessment.attempts
AttemptsExceeded(n, attempts) == n >= attempts

\* assessment.questions: active questions of the assessment, by order
ActiveQuestions(a) ==
  {q \in DOMAIN Questions :
     Questions[q].assessmentId = a /\ Questions[q].isActive}

Perms(S) ==
  {s \in [1..Cardinality(S) -> S] : \A i, j \in DOMAIN s : i # j => s[i] # s[j]}

OrderedQuestions(a) ==
  CHOOSE s \in Perms(ActiveQuestions(a)) :
    \A i, j \in DOMAIN s : i < j => Questions[s[i]].order <= Questions[s[j]].order

\* The orders the start route may return: a random shuffle for a fresh
\* attempt of a randomized assessment, the order by `order` otherwise.
StartOrders(asmt, resumed) ==
  IF asmt.randomizeQuestions /\ ~resumed
    THEN Perms(ActiveQuestions(asmt.id))
    ELSE {OrderedQuestions(asmt.id)}

\* An option returned with its correctness flag.
FormatOption_WithFlag(opts, o) ==
  [id |-> o, optionText |-> opts[o].optionText, isCorrect |-> opts[o].isCorrect]

\* A question's options as the start route returns them: sorted by `order`,
\* each reduced to its id (and its text).
FormatOption(opts, o) == [id |-> o, optionText |-> opts[o].optionText]

FormatOptions(opts, q) ==
  LET mine == {o \in DOMAIN opts : opts[o].questionId = q}
      sorted == CHOOSE s \in Perms(mine) :
                  \A i, j \in DOMAIN s : i < j => opts[s[i]].order <= opts[s[j]].order
  IN [i \in DOMAIN sorted |-> FormatOption(opts, sorted[i])]

\* formattedQuestions: the questions of the response body, in the order
\* given.
FormatQuestions(order, qs, opts) ==
  [i \in DOMAIN order |->
     [id |-> order[i], questionType |-> qs[order[i]].questionType,
      marks |-> qs[order[i]].marks, options |-> FormatOptions(opts, order[i])]]

\* A start route without the endDate check.
HasEnded_Never(asmt, now) == FALSE

\* assessment.startDate && now < assessment.startDate
NotStartedYet(asmt, now) ==
  asmt.startDate # NoDate /\ now < asmt.startDate

\* assessment.endDate && now > assessment.endDate
HasEnded(asmt, now) ==
  asmt.endDate # NoDate /\ now > asmt.endDate

\* A row numbered with the count itself.
NewSubmission_FromZero(a, u, total, n) ==
  [assessmentId |-> a, userId |-> u, attemptNumber |-> n,
   status |-> "IN_PROGRESS", totalMarks |-> total, obtainedMarks |-> 0,
   percentage |-> 0, isPassed |-> FALSE, isCheckedByTeacher |-> FALSE,
   checkedBy |-> NoId, checkedAt |-> NoText]

\* The row the start route creates (the rest are column defaults).
NewSubmission(a, u, total, n) ==
  [assessmentId |-> a, userId |-> u, attemptNumber |-> n + 1,
   status |-> "IN_PROGRESS", totalMarks |-> total, obtainedMarks |-> 0,
   percentage |-> 0, isPassed |-> FALSE, isCheckedByTeacher |-> FALSE,
   checkedBy |-> NoId, checkedAt |-> NoText]

\* A lookup of the submission that forgets `userId: userId`.
OpenSubmission_AnyOwner(subs, sid, u) ==
  sid \in DOMAIN subs /\ subs[sid].status = "IN_PROGRESS"

\* save-answer: findFirst({ where: { id, userId, status: 'IN_PROGRESS' } })
\* finds a row.
OpenSubmission(subs, sid, u) ==
  /\ sid \in DOMAIN subs
  /\ subs[sid].userId = u
  /\ subs[sid].status = "IN_PROGRESS"

\* A lookup of the submission to submit that forgets `status: 'IN_PROGRESS'`.
OpenSubmissionOf_AnyStatus(subs, sid, u, a) ==
  /\ sid \in DOMAIN subs
  /\ subs[sid].userId = u
  /\ subs[sid].assessmentId = a

\* submit: findFirst({ where: { id, userId, assessmentId, status:
\* 'IN_PROGRESS' } }) finds a row.
OpenSubmissionOf(subs, sid, u, a) ==
  /\ sid \in DOMAIN subs
  /\ subs[sid].userId = u
  /\ subs[sid].assessmentId = a
  /\ subs[sid].status = "IN_PROGRESS"

\* An auto-grading that looks the option up among all options instead of
\* the question's.
AutoGrade_AnyQuestion(q, sel) ==
  IF /\ IsChoice(q)
     /\ \E o \in DOMAIN Options : o = sel /\ Options[o].isCorrect
    THEN <<TRUE, Questions[q].marks>>
    ELSE <<FALSE, 0>>

\* Auto-grading of save-answer: <<isCorrect, marksObtained>>
AutoGrade(q, sel) ==
  IF /\ IsChoice(q)
     /\ \E o \in DOMAIN Options :
          Options[o].questionId = q /\ o = sel /\ Options[o].isCorrect
    THEN <<TRUE, Questions[q].marks>>
    ELSE <<FALSE, 0>>

\* An insert in place of the upsert.
Upsert_Insert(ans, sid, qid, sel, text, g) ==
  ans \cup {[submissionId |-> sid, questionId |-> qid,
             selectedOptionId |-> IF sel = -1 THEN NoId ELSE sel,
             textAnswer |-> IF text = Undefined THEN NoText ELSE text,
             isCorrect |-> g[1], marksObtained |-> g[2]]}

\* An upsert whose `where` matches every answer of the submission.
Upsert_WholeSubmission(ans, sid, qid, sel, text, g) ==
  (ans \ AnswersOf(ans, sid))
    \cup {[submissionId |-> sid, questionId |-> qid,
            selectedOptionId |-> IF sel = -1 THEN NoId ELSE sel,
            textAnswer |-> IF text = Undefined THEN NoText ELSE text,
            isCorrect |-> g[1], marksObtained |-> g[2]]}

\* prisma.submissionAnswer.upsert: an absent key leaves the column alone on
\* update and gives null on create.
Upsert(ans, sid, qid, sel, text, g) ==
  LET old == Row(ans, sid, qid)
      new == IF old = {}
               THEN {[submissionId |-> sid, questionId |-> qid,
                      selectedOptionId |-> IF sel = -1 THEN NoId ELSE sel,
                      textAnswer |-> IF text = Undefined THEN NoText ELSE text,
                      isCorrect |-> g[1], marksObtained |-> g[2]]}
               ELSE {[x EXCEPT
                        !.selectedOptionId = IF sel = -1 THEN @ ELSE sel,
                        !.textAnswer = IF text = Undefined THEN @ ELSE text,
                        !.isCorrect = g[1],
                        !.marksObtained = g[2]] : x \in old}
  IN (ans \ old) \cup new

\* A range check that forgets the upper bound.
MarksOutOfRange_NoUpper(m, q) == m < 0

\* marksObtained < 0 || marksObtained > answer.question.marks
MarksOutOfRange(m, q) == m < 0 \/ m > Questions[q].marks

\* isCorrect of a graded answer: marksObtained === answer.question.marks
GradedCorrect(m, q) == m = Questions[q].marks

\* prisma.submissionAnswer.update of the grade route
GradeRow(ans, sid, qid, m) ==
  {IF x.submissionId = sid /\ x.questionId = qid
     THEN [x EXCEPT !.marksObtained = m, !.isCorrect = GradedCorrect(m, qid)]
     ELSE x : x \in ans}

\* allAnswers.reduce of the grade route: the graded answer counts with the
\* marks just sent, every other answer with its stored marks.
RegradeTotal(all, sid, qid, m) ==
  LET mine == {x \in all : x.submissionId = sid /\ x.questionId = qid}
  IN SumMarks(all \ mine) + m * Cardinality(mine)

\* An ungraded check that forgets `answer.textAnswer !== null`.
UngradedAnswers_IgnoreText(ans, sid) ==
  {x \in AnswersOf(ans, sid) :
     IsFreeText(x.questionId) /\ x.marksObtained = 0}

\* The answers approve-review counts as still needing a grade.
UngradedAnswers(ans, sid) ==
  {x \in AnswersOf(ans, sid) :
     /\ IsFreeText(x.questionId)
     /\ x.textAnswer # NoText
     /\ x.marksObtained = 0}

\* A submit that takes the percentage against the submission's snapshot of
\* totalMarks instead of the assessment's current value.
SubmitUpdate_Snapshot(sub, obtained, total, passingMarks) ==
  [sub EXCEPT !.status = "COMPLETED",
              !.obtainedMarks = obtained,
              !.percentage = Percentage(obtained, sub.totalMarks),
              !.isPassed = IsPassed(obtained, passingMarks),
              !.isCheckedByTeacher = FALSE]

\* The data of the submit route's update.
SubmitUpdate(sub, obtained, total, passingMarks) ==
  [sub EXCEPT !.status = "COMPLETED",
              !.obtainedMarks = obtained,
              !.percentage = Percentage(obtained, total),
              !.isPassed = IsPassed(obtained, passingMarks),
              !.isCheckedByTeacher = FALSE]

\* A grade route that takes the percentage against the submission's
\* snapshot of totalMarks.
GradeUpdate_Snapshot(sub, obtained, total, passingMarks) ==
  [sub EXCEPT !.obtainedMarks = obtained,
              !.percentage = Percentage(obtained, sub.totalMarks),
              !.isPassed = IsPassed(obtained, passingMarks)]

\* The data of the grade route's submission update.
GradeUpdate(sub, obtained, total, passingMarks) ==
  [sub EXCEPT !.obtainedMarks = obtained,
              !.percentage = Percentage(obtained, total),
              !.isPassed = IsPassed(obtained, passingMarks)]

\* An approval that reopens the submission.
ApproveUpdate_Reopen(sub, t) ==
  [sub EXCEPT !.isCheckedByTeacher = TRUE, !.checkedBy = t,
              !.checkedAt = "set", !.status = "IN_PROGRESS"]

\* An approval that sets the flag and leaves checkedBy and checkedAt null.
ApproveUpdate_Unsigned(sub, t) == [sub EXCEPT !.isCheckedByTeacher = TRUE]

\* The data of the approve-review route's update.
ApproveUpdate(sub, t) ==
  [sub EXCEPT !.isCheckedByTeacher = TRUE, !.checkedBy = t,
              !.checkedAt = "set"]

----------------------------------------------------------------------------
(* Responses *)

\* What the last request was (route, caller, ids and marks sent; in `body`
\* the instant of a start request and the answer sent with an accepted
\* save-answer) and what it answered: the error kind or OK, the submission
\* id and the questions of the response, in their order.
Response(op, code, u, aid, sid, qid, m, order) ==
  [op |-> op, code |-> code, user |-> u, aid |-> aid, sid |-> sid,
   qid |-> qid, marks |-> m, order |-> order, body |-> <<>>]

\* A response of the start route to a request made at the instant now.
StartResponse(code, u, a, sid, now, order) ==
  [Response("start", code, u, a, sid, NoId, 0, order) EXCEPT !.body = <<now>>]

\* The response of save-answer to an accepted request with selectedOptionId
\* sel and textAnswer text.
SaveResponse(u, sid, qid, sel, text) ==
  [Response("save", "OK", u, NoId, sid, qid, 0, <<>>)
     EXCEPT !.body = <<sel, text>>]

----------------------------------------------------------------------------
(* Handlers, each run as one step *)

\* POST /student/assessments/:id/start
StartAttempt(u, a, now) ==
  /\ UNCHANGED <<assessment, enrollments, answers, reqs>>
  /\ IF a # assessment.id \/ ~assessment.isActive
       THEN /\ resp' = StartResponse("NotFound", u, a, NoId, now, <<>>)
            /\ UNCHANGED submissions
     ELSE IF u \notin enrollments
       THEN /\ resp' = StartResponse("Forbidden", u, a, NoId, now, <<>>)
            /\ UNCHANGED submissions
     ELSE IF NotStartedYet(assessment, now)
       THEN /\ resp' = StartResponse("NotStarted", u, a, NoId, now, <<>>)
            /\ UNCHANGED submissions
     ELSE IF HasEnded(assessment, now)
       THEN /\ resp' = StartResponse("Ended", u, a, NoId, now, <<>>)
            /\ UNCHANGED submissions
     ELSE LET n == CountAttempts(submissions, a, u)
              ip == FindInProgress(submissions, a, u)
          IN IF AttemptsExceeded(n, assessment.attempts)
               THEN /\ resp' = StartResponse("AttemptsExceeded", u, a, NoId,
                                             now, <<>>)
                    /\ UNCHANGED submissions
             ELSE IF ip # NoId
               THEN /\ \E o \in StartOrders(assessment, TRUE) :
                         resp' = StartResponse("OK", u, a, ip, now,
                                               FormatQuestions(o, Questions, Options))
                    /\ UNCHANGED submissions
             ELSE IF assessment.totalMarks <= 0
               THEN /\ resp' = StartResponse("InvalidConfiguration", u, a,
                                             NoId, now, <<>>)
                    /\ UNCHANGED submissions
             ELSE /\ submissions' =
                       Append(submissions,
                              NewSubmission(a, u, assessment.totalMarks, n))
                  /\ \E o \in StartOrders(assessment, FALSE) :
                       resp' = StartResponse("OK", u, a, Len(submissions) + 1,
                                            now,
                                            FormatQuestions(o, Questions, Options))

\* POST /student/save-answer
SaveAnswer(u, sid, qid, sel, text) ==
  /\ UNCHANGED <<assessment, enrollments, submissions, reqs>>
  /\ IF ~OpenSubmission(submissions, sid, u)
       THEN /\ resp' = Response("save", "SubmissionClosed", u, NoId, sid, qid, 0, <<>>)
            /\ UNCHANGED answers
     ELSE IF qid \notin DOMAIN Questions
       THEN /\ resp' = Response("save", "QuestionNotFound", u, NoId, sid, qid, 0, <<>>)
            /\ UNCHANGED answers
     ELSE /\ answers' = Upsert(answers, sid, qid, sel, text, AutoGrade(qid, sel))
          /\ resp' = SaveResponse(u, sid, qid, sel, text)

\* POST /student/assessments/:id/submit
Submit(u, a, sid) ==
  /\ UNCHANGED <<assessment, enrollments, answers, reqs>>
  /\ IF sid = NoId
       THEN /\ resp' = Response("submit", "BadRequest", u, a, sid, NoId, 0, <<>>)
            /\ UNCHANGED submissions
     ELSE IF ~OpenSubmissionOf(submissions, sid, u, a)
       THEN /\ resp' = Response("submit", "NotFound", u, a, sid, NoId, 0, <<>>)
            /\ UNCHANGED submissions
     ELSE IF assessment.totalMarks <= 0
       THEN /\ resp' = Response("submit", "InvalidConfiguration", u, a, sid,
                                NoId, 0, <<>>)
            /\ UNCHANGED submissions
     ELSE LET obtained == SumMarks(AnswersOf(answers, sid))
          IN /\ submissions' =
                  [submissions EXCEPT
                     ![sid] = SubmitUpdate(@, obtained, assessment.totalMarks,
                                           assessment.passingMarks)]
             /\ resp' = Response("submit", "OK", u, a, sid, NoId, obtained, <<>>)

\* POST /admin/submissions/:id/grade (the id is the answer's)
GradeAnswer(t, sid, qid, m) ==
  /\ UNCHANGED <<assessment, enrollments, reqs>>
  /\ IF Row(answers, sid, qid) = {}
       THEN /\ resp' = Response("grade", "NotFound", t, NoId, sid, qid, m, <<>>)
            /\ UNCHANGED <<submissions, answers>>
     ELSE IF MarksOutOfRange(m, qid)
       THEN /\ resp' = Response("grade", "MarksOutOfRange", t, NoId, sid, qid, m, <<>>)
            /\ UNCHANGED <<submissions, answers>>
     ELSE LET graded == GradeRow(answers, sid, qid, m)
              obtained == RegradeTotal(AnswersOf(graded, sid), sid, qid, m)
          IN /\ answers' = graded
             /\ submissions' =
                  [submissions EXCEPT
                     ![sid] = GradeUpdate(@, obtained, assessment.totalMarks,
                                          assessment.passingMarks)]
             /\ resp' = Response("grade", "OK", t, NoId, sid, qid, m, <<>>)

\* POST /admin/submissions/:id/approve-review
ApproveReview(t, sid) ==
  /\ UNCHANGED <<assessment, enrollments, answers, reqs>>
  /\ IF sid \notin DOMAIN submissions
       THEN /\ resp' = Response("approve", "NotFound", t, NoId, sid, NoId, 0, <<>>)
            /\ UNCHANGED submissions
     ELSE IF submissions[sid].status # "COMPLETED"
       THEN /\ resp' = Response("approve", "InvalidState", t, NoId, sid, NoId, 0, <<>>)
            /\ UNCHANGED submissions
     ELSE IF UngradedAnswers(answers, sid) # {}
       THEN /\ resp' = Response("approve", "GradingIncomplete", t, NoId, sid, NoId,
                                0, <<>>)
            /\ UNCHANGED submissions
     ELSE /\ submissions' = [submissions EXCEPT ![sid] = ApproveUpdate(@, t)]
          /\ resp' = Response("approve", "OK", t, NoId, sid, NoId, 0, <<>>)

----------------------------------------------------------------------------
(* Student-facing result queries.  A value the response leaves out (null) is
   <<>>, a value it carries is <<v>>. *)

Hidden == <<>>

Shown(v) == <<v>>

SubmissionsOf(subs, a, u) ==
  {i \in DOMAIN subs : subs[i].assessmentId = a /\ subs[i].userId = u}

MaxOf(S) == CHOOSE x \in S : \A y \in S : y <= x

\* GET /student/my-assessments: the entry of the assessment for user u
\* (none unless u is enrolled and the assessment is active).  The latest
\* submission is the one created last.
MyAssessmentsView(asmt, enr, subs, u) ==
  IF u \notin enr \/ ~asmt.isActive THEN Hidden
  ELSE LET mine == SubmissionsOf(subs, asmt.id, u)
           latest == IF mine = {} THEN NoId ELSE MaxOf(mine)
       IN Shown(
            [attemptsUsed |-> Cardinality(mine),
             status |->
               IF latest = NoId THEN "NOT_STARTED"
               ELSE IF subs[latest].status = "IN_PROGRESS" THEN "IN_PROGRESS"
               ELSE IF subs[latest].status = "COMPLETED"
                 THEN (IF subs[latest].isPassed THEN "PASSED" ELSE "FAILED")
               ELSE "NOT_STARTED",
             latestScore |->
               IF latest = NoId THEN Hidden
               ELSE Shown([percentage |-> subs[latest].percentage,
                           obtainedMarks |-> subs[latest].obtainedMarks,
                           isPassed |-> subs[latest].isPassed,
                           isCheckedByTeacher |->
                             subs[latest].isCheckedByTeacher])])

\* GET /student/my-results: one entry per COMPLETED submission of user u.
MyResultsView(subs, u) ==
  LET done == {i \in DOMAIN subs :
                 subs[i].userId = u /\ subs[i].status = "COMPLETED"}
  IN [i \in done |->
        IF ~subs[i].isCheckedByTeacher
          THEN [status |-> "PENDING_REVIEW", obtainedMarks |-> Hidden,
                percentage |-> Hidden, isPassed |-> Hidden,
                canReview |-> FALSE]
          ELSE [status |-> "GRADED",
                obtainedMarks |-> Shown(subs[i].obtainedMarks),
                percentage |-> Shown(subs[i].percentage),
                isPassed |-> Shown(subs[i].isPassed),
                canReview |-> TRUE]]

\* GET /student/submissions/:id/review
ReviewView(subs, ans, u, sid) ==
  IF ~(/\ sid \in DOMAIN subs
       /\ subs[sid].userId = u
       /\ subs[sid].status = "COMPLETED")
    THEN [code |-> "NotFound", submission |-> Hidden, answers |-> {}]
  ELSE IF ~subs[sid].isCheckedByTeacher
    THEN [code |-> "PendingReview", submission |-> Hidden, answers |-> {}]
  ELSE [code |-> "OK",
        submission |-> Shown([obtainedMarks |-> subs[sid].obtainedMarks,
                              percentage |-> subs[sid].percentage,
                              isPassed |-> subs[sid].isPassed]),
        answers |-> {[questionId |-> x.questionId,
                      marksObtained |-> x.marksObtained,
                      isCorrect |-> x.isCorrect,
                      selectedOptionId |-> x.selectedOptionId,
                      textAnswer |-> x.textAnswer] : x \in AnswersOf(ans, sid)}]

\* GET /student/courses/:courseId/progress: the entry of the assessment for
\* user u.  The latest submission is the one with the largest attemptNumber.
CourseProgressView(asmt, enr, subs, u) ==
  IF u \notin enr \/ ~asmt.isActive THEN Hidden
  ELSE LET mine == SubmissionsOf(subs, asmt.id, u)
           latest == IF mine = {} THEN NoId
                     ELSE CHOOSE i \in mine :
                            \A j \in mine :
                              subs[j].attemptNumber <= subs[i].attemptNumber
           checked == {i \in mine : /\ subs[i].status = "COMPLETED"
                                    /\ subs[i].isCheckedByTeacher}
       IN Shown(
            [attemptsUsed |-> Cardinality(mine),
             status |->
               IF latest = NoId THEN "PENDING"
               ELSE IF subs[latest].status = "IN_PROGRESS" THEN "IN_PROGRESS"
               ELSE IF subs[latest].isCheckedByTeacher
                 THEN (IF subs[latest].isPassed THEN "PASSED" ELSE "FAILED")
               ELSE "PENDING_REVIEW",
             latestAttempt |->
               IF latest = NoId THEN Hidden
               ELSE Shown(
                 [obtainedMarks |-> IF subs[latest].isCheckedByTeacher
                                      THEN Shown(subs[latest].obtainedMarks)
                                      ELSE Hidden,
                  percentage |-> IF subs[latest].isCheckedByTeacher
                                   THEN Shown(subs[latest].percentage)
                                   ELSE Hidden,
                  isPassed |-> IF subs[latest].isCheckedByTeacher
                                 THEN Shown(subs[latest].isPassed)
                                 ELSE Hidden,
                  isCheckedByTeacher |-> subs[latest].isCheckedByTeacher]),
             bestScore |->
               IF checked = {} THEN Hidden
               ELSE Shown(MaxOf({subs[i].percentage : i \in checked}))])

----------------------------------------------------------------------------
(* Administration of the assessment *)

\* PUT /admin/assessments/:id with a totalMarks in the body: the spread
\* `...(totalMarks && { totalMarks })` writes the column only for a truthy
\* value.
UpdateAssessment(a, total) ==
  /\ a = assessment.id
  /\ assessment' = IF total # 0 THEN [assessment EXCEPT !.totalMarks = total]
                                ELSE assessment
  /\ resp' = Response("update", "OK", NoId, NoId, NoId, NoId, total, <<>>)
  /\ UNCHANGED <<enrollments, submissions, answers, reqs>>

\* PATCH /admin/assessments/:id/toggle-status
ToggleStatus(a) ==
  /\ a = assessment.id
  /\ assessment' = [assessment EXCEPT !.isActive = ~assessment.isActive]
  /\ resp' = Response("toggle", "OK", NoId, NoId, NoId, NoId, 0, <<>>)
  /\ UNCHANGED <<enrollments, submissions, answers, reqs>>

----------------------------------------------------------------------------
(* Handlers run as separate store statements.  A request occupies a slot
   from its first statement to its response; requests in different slots
   interleave between statements.  The reads of the assessment, the
   enrollment and the question, which no request of SpecConc writes, are
   taken together with the statement that follows them. *)

Slots == 1..MaxInFlight

Request(op, pc, u, a, sid, qid, m, sel, text, val) ==
  [op |-> op, pc |-> pc, user |-> u, aid |-> a, sid |-> sid, qid |-> qid,
   marks |-> m, sel |-> sel, text |-> text, val |-> val, now |-> 0]

Idle == Request("idle", "idle", NoId, NoId, NoId, NoId, 0, NoId, NoText, 0)

\* The request of slot i answers and leaves.
Reply(i, r) ==
  /\ resp' = r
  /\ reqs' = [reqs EXCEPT ![i] = Idle]

\* The request of slot i goes on to its next statement.
Goto(i, r) ==
  /\ reqs' = [reqs EXCEPT ![i] = r]
  /\ UNCHANGED resp

\* A table without the unique index.
AttemptNumberTaken_NoIndex(subs, a, u, k) == FALSE

\* The unique index on (assessmentId, userId, attemptNumber) refuses the row.
AttemptNumberTaken(subs, a, u, k) ==
  \E j \in DOMAIN subs :
    /\ subs[j].assessmentId = a
    /\ subs[j].userId = u
    /\ subs[j].attemptNumber = k

\* start: findFirst assessment, findFirst enrollment, time window, count
StartCount(i, u, a, now) ==
  /\ reqs[i] = Idle
  /\ UNCHANGED store
  /\ IF a # assessment.id \/ ~assessment.isActive
       THEN Reply(i, StartResponse("NotFound", u, a, NoId, now, <<>>))
     ELSE IF u \notin enrollments
       THEN Reply(i, StartResponse("Forbidden", u, a, NoId, now, <<>>))
     ELSE IF NotStartedYet(assessment, now)
       THEN Reply(i, StartResponse("NotStarted", u, a, NoId, now, <<>>))
     ELSE IF HasEnded(assessment, now)
       THEN Reply(i, StartResponse("Ended", u, a, NoId, now, <<>>))
     ELSE LET n == CountAttempts(submissions, a, u)
          IN IF AttemptsExceeded(n, assessment.attempts)
               THEN Reply(i, StartResponse("AttemptsExceeded", u, a, NoId,
                                             now, <<>>))
               ELSE Goto(i, [Request("start", "find", u, a, NoId, NoId, 0,
                                     NoId, NoText, n) EXCEPT !.now = now])

\* start: findFirst IN_PROGRESS submission
StartFind(i) ==
  /\ reqs[i].op = "start" /\ reqs[i].pc = "find"
  /\ UNCHANGED store
  /\ LET r == reqs[i]
         ip == FindInProgress(submissions, r.aid, r.user)
     IN IF ip # NoId
          THEN \E o \in StartOrders(assessment, TRUE) :
                 Reply(i, StartResponse("OK", r.user, r.aid, ip, r.now,
                                        FormatQuestions(o, Questions, Options)))
        ELSE IF assessment.totalMarks <= 0
          THEN Reply(i, StartResponse("InvalidConfiguration", r.user,
                                      r.aid, NoId, r.now, <<>>))
        ELSE Goto(i, [r EXCEPT !.pc = "create"])

\* start: create the submission; a refused insert throws and the catch
\* block answers 500.
StartCreate(i) ==
  /\ reqs[i].op = "start" /\ reqs[i].pc = "create"
  /\ UNCHANGED <<assessment, enrollments, answers>>
  /\ LET r == reqs[i]
     IN IF AttemptNumberTaken(submissions, r.aid, r.user, r.val + 1)
          THEN /\ UNCHANGED submissions
               /\ Reply(i, StartResponse("InternalError", r.user, r.aid,
                                          NoId, r.now, <<>>))
          ELSE /\ submissions' =
                    Append(submissions,
                           NewSubmission(r.aid, r.user, assessment.totalMarks,
                                         r.val))
               /\ \E o \in StartOrders(assessment, FALSE) :
                    Reply(i, StartResponse("OK", r.user, r.aid,
                                           Len(submissions) + 1, r.now,
                                           FormatQuestions(o, Questions, Options)))

\* save-answer: findFirst submission, findFirst question, grade
SaveCheck(i, u, sid, qid, sel, text) ==
  /\ reqs[i] = Idle
  /\ UNCHANGED store
  /\ IF ~OpenSubmission(submissions, sid, u)
       THEN Reply(i, Response("save", "SubmissionClosed", u, NoId, sid, qid,
                              0, <<>>))
     ELSE IF qid \notin DOMAIN Questions
       THEN Reply(i, Response("save", "QuestionNotFound", u, NoId, sid, qid,
                              0, <<>>))
     ELSE Goto(i, Request("save", "upsert", u, NoId, sid, qid, 0, sel, text, 0))

\* save-answer: upsert
SaveUpsert(i) ==
  /\ reqs[i].op = "save" /\ reqs[i].pc = "upsert"
  /\ UNCHANGED <<assessment, enrollments, submissions>>
  /\ LET r == reqs[i]
     IN /\ answers' = Upsert(answers, r.sid, r.qid, r.sel, r.text,
                             AutoGrade(r.qid, r.sel))
        /\ Reply(i, SaveResponse(r.user, r.sid, r.qid, r.sel, r.text))

\* submit: findFirst submission with its answers and assessment, compute
SubmitRead(i, u, a, sid) ==
  /\ reqs[i] = Idle
  /\ UNCHANGED store
  /\ IF sid = NoId
       THEN Reply(i, Response("submit", "BadRequest", u, a, sid, NoId, 0, <<>>))
     ELSE IF ~OpenSubmissionOf(submissions, sid, u, a)
       THEN Reply(i, Response("submit", "NotFound", u, a, sid, NoId, 0, <<>>))
     ELSE IF assessment.totalMarks <= 0
       THEN Reply(i, Response("submit", "InvalidConfiguration", u, a, sid,
                              NoId, 0, <<>>))
     ELSE Goto(i, Request("submit", "update", u, a, sid, NoId, 0, NoId, NoText,
                          SumMarks(AnswersOf(answers, sid))))

\* submit: update where { id }
SubmitWrite(i) ==
  /\ reqs[i].op = "submit" /\ reqs[i].pc = "update"
  /\ UNCHANGED <<assessment, enrollments, answers>>
  /\ LET r == reqs[i]
     IN /\ submissions' =
             [submissions EXCEPT
                ![r.sid] = SubmitUpdate(@, r.val, assessment.totalMarks,
                                        assessment.passingMarks)]
        /\ Reply(i, Response("submit", "OK", r.user, r.aid, r.sid, NoId,
                              r.val, <<>>))

\* grade: findUnique answer with its question and submission, validate
GradeRead(i, t, sid, qid, m) ==
  /\ reqs[i] = Idle
  /\ UNCHANGED store
  /\ IF Row(answers, sid, qid) = {}
       THEN Reply(i, Response("grade", "NotFound", t, NoId, sid, qid, m, <<>>))
     ELSE IF MarksOutOfRange(m, qid)
       THEN Reply(i, Response("grade", "MarksOutOfRange", t, NoId, sid, qid,
                              m, <<>>))
     ELSE Goto(i, Request("grade", "write", t, NoId, sid, qid, m, NoId,
                          NoText, 0))

\* grade: update the answer
GradeWrite(i) ==
  /\ reqs[i].op = "grade" /\ reqs[i].pc = "write"
  /\ UNCHANGED <<assessment, enrollments, submissions>>
  /\ LET r == reqs[i]
     IN /\ answers' = GradeRow(answers, r.sid, r.qid, r.marks)
        /\ Goto(i, [r EXCEPT !.pc = "sum"])

\* grade: findMany answers of the submission, sum
GradeSum(i) ==
  /\ reqs[i].op = "grade" /\ reqs[i].pc = "sum"
  /\ UNCHANGED store
  /\ LET r == reqs[i]
     IN Goto(i, [r EXCEPT !.pc = "update",
                          !.val = RegradeTotal(AnswersOf(answers, r.sid),
                                               r.sid, r.qid, r.marks)])

\* A grade that sums the answers again in the statement that writes the
\* submission.
GradeFinish_Recompute(i) ==
  /\ reqs[i].op = "grade" /\ reqs[i].pc = "update"
  /\ UNCHANGED <<assessment, enrollments, answers>>
  /\ LET r == reqs[i]
     IN /\ submissions' =
             [submissions EXCEPT
                ![r.sid] = GradeUpdate(@, SumMarks(AnswersOf(answers, r.sid)),
                                       assessment.totalMarks,
                                       assessment.passingMarks)]
        /\ Reply(i, Response("grade", "OK", r.user, NoId, r.sid, r.qid,
                              r.marks, <<>>))

\* grade: update the submission
GradeFinish(i) ==
  /\ reqs[i].op = "grade" /\ reqs[i].pc = "update"
  /\ UNCHANGED <<assessment, enrollments, answers>>
  /\ LET r == reqs[i]
     IN /\ submissions' =
             [submissions EXCEPT
                ![r.sid] = GradeUpdate(@, r.val, assessment.totalMarks,
                                       assessment.passingMarks)]
        /\ Reply(i, Response("grade", "OK", r.user, NoId, r.sid, r.qid,
                              r.marks, <<>>))

\* approve-review: findUnique submission with its answers, validate
ApproveRead(i, t, sid) ==
  /\ reqs[i] = Idle
  /\ UNCHANGED store
  /\ IF sid \notin DOMAIN submissions
       THEN Reply(i, Response("approve", "NotFound", t, NoId, sid, NoId, 0, <<>>))
     ELSE IF submissions[sid].status # "COMPLETED"
       THEN Reply(i, Response("approve", "InvalidState", t, NoId, sid, NoId,
                              0, <<>>))
     ELSE IF UngradedAnswers(answers, sid) # {}
       THEN Reply(i, Response("approve", "GradingIncomplete", t, NoId, sid,
                              NoId, 0, <<>>))
     ELSE Goto(i, Request("approve", "update", t, NoId, sid, NoId, 0, NoId,
                          NoText, 0))

\* approve-review: update where { id }
ApproveWrite(i) ==
  /\ reqs[i].op = "approve" /\ reqs[i].pc = "update"
  /\ UNCHANGED <<assessment, enrollments, answers>>
  /\ LET r == reqs[i]
     IN /\ submissions' =
             [submissions EXCEPT ![r.sid] = ApproveUpdate(@, r.user)]
        /\ Reply(i, Response("approve", "OK", r.user, NoId, r.sid, NoId, 0, <<>>))

----------------------------------------------------------------------------
(* Authorization: the authorize(capabilityName) middleware in front of every
   route, and the routes that change what it reads *)

TraineeRole == 1

TrainerRole == 2

RoleIds == {TraineeRole, TrainerRole}

\* The capabilities of the start, submit and approve-review routes.
Capabilities ==
  {"start_taking_assessment", "submit_assessment", "approve_submission_review"}

\* Every student and teacher with a role.
SeededUsers ==
  [u \in Students \cup Teachers |->
     IF u \in Students THEN TraineeRole ELSE TrainerRole]

\* The trainee role holds the capabilities of start and submit, as seeded;
\* the trainer role was granted the capability of approve-review, which the
\* seed does not create.
SeededCapabilities ==
  {<<TraineeRole, "start_taking_assessment">>,
   <<TraineeRole, "submit_assessment">>,
   <<TrainerRole, "approve_submission_review">>}

\* authorize(capabilityName): "next" when the handler is called, otherwise
\* the answer of the middleware.  A user without a role has user.role null,
\* reading user.role.roleCapabilities throws and the catch block answers
\* 500.
Authorize(usrs, rcs, u, c) ==
  IF u \notin DOMAIN usrs THEN "UserNotFound"
  ELSE IF usrs[u] = NoId THEN "AuthorizationFailed"
  ELSE IF <<usrs[u], c>> \notin rcs THEN "AccessDenied"
  ELSE "next"

\* A route: the middleware, then the handler if the middleware calls next().
Route(op, u, c, Handler) ==
  LET a == Authorize(users, roleCapabilities, u, c)
  IN IF a = "next"
       THEN Handler
       ELSE /\ resp' = Response(op, a, u, NoId, NoId, NoId, 0, <<>>)
            /\ UNCHANGED <<store, reqs>>

\* POST /roles/:roleId/capabilities with one capability: grant creates the
\* row if missing, revoke deletes it if present.
AssignCapability(r, c, granted) ==
  /\ roleCapabilities' = IF granted THEN roleCapabilities \cup {<<r, c>>}
                                     ELSE roleCapabilities \ {<<r, c>>}
  /\ resp' = Response("assign", "OK", NoId, NoId, NoId, NoId, 0, <<>>)
  /\ UNCHANGED <<store, reqs, users>>

\* PUT /users/:id with a roleId (null allowed) for an existing user.
UpdateUser(u, r) ==
  /\ u \in DOMAIN users
  /\ users' = [users EXCEPT ![u] = r]
  /\ resp' = Response("user", "OK", u, NoId, NoId, NoId, 0, <<>>)
  /\ UNCHANGED <<store, reqs, roleCapabilities>>

\* DELETE /users/:id of a user who is not enrolled and has no submission:
\* the row is deleted, and the checkedBy of the submissions the user
\* approved becomes null (foreign key ON DELETE SET NULL).
DeleteUser(u) ==
  /\ u \in DOMAIN users
  /\ u \notin enrollments
  /\ \A i \in DOMAIN submissions : submissions[i].userId # u
  /\ users' = [v \in DOMAIN users \ {u} |-> users[v]]
  /\ submissions' =
       [i \in DOMAIN submissions |->
          IF submissions[i].checkedBy = u
            THEN [submissions[i] EXCEPT !.checkedBy = NoId]
            ELSE submissions[i]]
  /\ resp' = Response("delete", "OK", u, NoId, NoId, NoId, 0, <<>>)
  /\ UNCHANGED <<assessment, enrollments, answers, reqs, roleCapabilities>>

----------------------------------------------------------------------------
(* Specifications: handlers run one at a time *)

NoResponse == Response("none", "OK", NoId, NoId, NoId, NoId, 0, <<>>)

\* An active assessment with totalMarks 10 and passingMarks 5, an attempts
\* limit up to n, randomizeQuestions in R, startDate and endDate in D and a
\* set of enrolled students among E; nothing started.
InitDated(n, R, E, D) ==
  /\ \E k \in 1..n, r \in R, sd \in D, ed \in D :
       assessment = [id |-> 1, isActive |-> TRUE, totalMarks |-> 10,
                     passingMarks |-> 5, attempts |-> k,
                     randomizeQuestions |-> r, startDate |-> sd,
                     endDate |-> ed]
  /\ enrollments \in E
  /\ submissions = <<>>
  /\ answers = {}
  /\ resp = NoResponse
  /\ reqs = [i \in Slots |-> Idle]
  /\ users = SeededUsers
  /\ roleCapabilities = SeededCapabilities

\* The assessment as the schema of the last migration holds it: without
\* startDate and endDate.
InitWith(n, R, E) == InitDated(n, R, E, {NoDate})

\* Without startDate and endDate the instant of a start request is never
\* compared: one instant stands for all.
AnyTime == {t \in Times : \A s \in Times : t <= s}

DoStart ==
  /\ UNCHANGED access
  /\ \E u \in Students, a \in AssessmentIds, now \in AnyTime :
       StartAttempt(u, a, now)

DoSave ==
  /\ UNCHANGED access
  /\ \E u \in Students, sid \in DOMAIN submissions, qid \in QuestionIds :
       \E in \in SaveInputs(qid) : SaveAnswer(u, sid, qid, in[1], in[2])

DoSubmit ==
  /\ UNCHANGED access
  /\ \E u \in Students, sid \in DOMAIN submissions : Submit(u, 1, sid)

DoGrade ==
  /\ UNCHANGED access
  /\ \E t \in Teachers, sid \in DOMAIN submissions, qid \in QuestionIds,
        m \in GradeInputs : GradeAnswer(t, sid, qid, m)

DoApprove ==
  /\ UNCHANGED access
  /\ \E t \in Teachers, sid \in DOMAIN submissions : ApproveReview(t, sid)

DoUpdate ==
  /\ UNCHANGED access
  /\ \E total \in TotalMarksInputs : UpdateAssessment(1, total)

DoToggle ==
  /\ UNCHANGED access
  /\ ToggleStatus(1)

\* Spec: the whole lifecycle of the attempts of student 1 (student 2 is not
\* enrolled), the assessment left as configured, its questions not shuffled.
Init == InitWith(MaxAttempts, {FALSE}, {{1}})

Next == DoStart \/ DoSave \/ DoSubmit \/ DoGrade \/ DoApprove

Spec == Init /\ [][Next]_vars

\* SpecAttempts: attempts of one or two enrolled students, started,
\* submitted without answers and approved.
InitAttempts == InitWith(MaxRetakes, BOOLEAN, {{1}, {1, 2}})

NextAttempts == DoStart \/ DoSubmit \/ DoApprove

SpecAttempts == InitAttempts /\ [][NextAttempts]_vars

\* SpecAdmin: attempts of student 1 while an administrator changes the
\* assessment's totalMarks and switches it on and off.
NextAdmin ==
  DoStart \/ DoSave \/ DoSubmit \/ DoApprove \/ DoUpdate \/ DoToggle

SpecAdmin == Init /\ [][NextAdmin]_vars

\* SpecGrade: the enrolled students answer and submit, a teacher grades and
\* grades again, an administrator changes the assessment's totalMarks.
StudentStart ==
  /\ UNCHANGED access
  /\ \E u \in enrollments, now \in AnyTime : StartAttempt(u, 1, now)

StudentSave ==
  /\ UNCHANGED access
  /\ \E u \in enrollments, sid \in DOMAIN submissions, qid \in QuestionIds :
       \E in \in SaveInputs(qid) : SaveAnswer(u, sid, qid, in[1], in[2])

StudentSubmit ==
  /\ UNCHANGED access
  /\ \E u \in enrollments, sid \in DOMAIN submissions : Submit(u, 1, sid)

\* A teacher grades a free-text answer with marks in range.
TeacherGrade ==
  /\ UNCHANGED access
  /\ \E t \in Teachers, sid \in DOMAIN submissions,
        qid \in {q \in QuestionIds : IsFreeText(q)} :
       \E m \in {n \in GradeInputs : ~MarksOutOfRange(n, qid)} :
         GradeAnswer(t, sid, qid, m)

\* totalMarks sent to the update route while answers are graded.
RescaleInputs == {t \in TotalMarksInputs : 10 < t /\ t < 20}

Rescale ==
  /\ UNCHANGED access
  /\ \E total \in RescaleInputs : UpdateAssessment(1, total)

NextGrade ==
  StudentStart \/ StudentSave \/ StudentSubmit \/ TeacherGrade \/ Rescale

SpecGrade == Init /\ [][NextGrade]_vars

\* SpecSave: save-answer requests of every kind: for a submission or a
\* question that does not exist, by a student who does not own the
\* submission, for the inactive question, with an option of another
\* question, without an option, with a text for any question.
MissingQuestionIds == {4}

AnswerInputs(q) ==
  IF q \notin DOMAIN Questions THEN {<<-1, Undefined>>}
  ELSE IF ~Questions[q].isActive
    THEN {<<o, Undefined>> : o \in {o \in DOMAIN Options : Options[o].questionId = q}}
  ELSE IF IsChoice(q)
    THEN {<<o, Undefined>> : o \in OptionIds \cup RetiredOptionIds \cup {-1}}
    ELSE {<<-1, "text">>, <<-1, NoText>>, <<2, "text">>}

AnySave ==
  /\ UNCHANGED access
  /\ \E u \in Students, sid \in 1..(Len(submissions) + 1),
        qid \in QuestionIds \cup RetiredQuestionIds \cup MissingQuestionIds :
       \E in \in AnswerInputs(qid) : SaveAnswer(u, sid, qid, in[1], in[2])

NextSave == StudentStart \/ AnySave \/ StudentSubmit

SpecSave == Init /\ [][NextSave]_vars

\* totalMarks sent to the update route by mistake (a negative number is
\* truthy and is written) and put right again.
ReconfigureInputs == {-5, 10}

Reconfigure ==
  /\ UNCHANGED access
  /\ \E total \in ReconfigureInputs : UpdateAssessment(1, total)

\* SpecSubmit: submit requests of every kind: without a submission id, for
\* a submission that does not exist, by a student who does not own it, under
\* another assessment's id, for a submission already submitted, and while
\* the assessment's totalMarks is not positive.
AnySubmit ==
  /\ UNCHANGED access
  /\ \E u \in Students, a \in AssessmentIds,
        sid \in 0..(Len(submissions) + 1) : Submit(u, a, sid)

NextSubmit == StudentStart \/ StudentSave \/ AnySubmit \/ Reconfigure

SpecSubmit == Init /\ [][NextSubmit]_vars

\* SpecStart: start requests of every kind, at any instant: for an
\* assessment that does not exist or is switched off, by a student who is
\* not enrolled, outside the window of a startDate and endDate (columns of
\* the first assessment migration, dropped by the last one), and while the
\* assessment's totalMarks is not positive.
WindowDates == {NoDate} \cup {t \in Times : 1 < t /\ t < 3}

InitStart == InitDated(MaxAttempts, {FALSE}, {{1}}, WindowDates)

AnyStart ==
  /\ UNCHANGED access
  /\ \E u \in Students, a \in AssessmentIds, now \in Times :
       StartAttempt(u, a, now)

NextStart == AnyStart \/ StudentSubmit \/ DoToggle \/ Reconfigure

SpecStart == InitStart /\ [][NextStart]_vars

\* SpecConc: requests of student 1 and the teacher, their store statements
\* interleaved; grades within range.
ConcGradeInputs == {m \in GradeInputs : m \in {0, 5}}

ConcStart ==
  /\ UNCHANGED access
  /\ \E i \in Slots, now \in AnyTime : StartCount(i, 1, 1, now)

ConcSave ==
  /\ UNCHANGED access
  /\ \E i \in Slots, sid \in DOMAIN submissions, qid \in QuestionIds :
       \E in \in SaveInputs(qid) : SaveCheck(i, 1, sid, qid, in[1], in[2])

ConcSubmit ==
  /\ UNCHANGED access
  /\ \E i \in Slots, sid \in DOMAIN submissions : SubmitRead(i, 1, 1, sid)

ConcGrade ==
  /\ UNCHANGED access
  /\ \E i \in Slots, t \in Teachers, sid \in DOMAIN submissions,
        qid \in QuestionIds, m \in ConcGradeInputs : GradeRead(i, t, sid, qid, m)

ConcApprove ==
  /\ UNCHANGED access
  /\ \E i \in Slots, t \in Teachers, sid \in DOMAIN submissions :
       ApproveRead(i, t, sid)

ConcStep ==
  /\ UNCHANGED access
  /\ \E i \in Slots :
       \/ StartFind(i)
       \/ StartCreate(i)
       \/ SaveUpsert(i)
       \/ SubmitWrite(i)
       \/ GradeWrite(i)
       \/ GradeSum(i)
       \/ GradeFinish(i)
       \/ ApproveWrite(i)

NextConc ==
  ConcStart \/ ConcSave \/ ConcSubmit \/ ConcGrade \/ ConcApprove \/ ConcStep

SpecConc == Init /\ [][NextConc]_vars

\* Two requests at a time race with each other.
PairSlots == {i \in Slots : i <= 2}

\* The answers of a student who leaves the grading to the teacher: the
\* wrong option, a text.
UngradedInputs(q) ==
  {in \in SaveInputs(q) : ~AutoGrade(q, in[1])[1] /\ in[2] # NoText}

UngradedSave ==
  /\ UNCHANGED access
  /\ \E u \in enrollments, sid \in DOMAIN submissions, qid \in QuestionIds :
       \E in \in UngradedInputs(qid) : SaveAnswer(u, sid, qid, in[1], in[2])

\* The teacher awards the full marks.
FullMarks == {m \in ConcGradeInputs : m > 0}

\* SpecGradeRace: student 1 answers and submits; two grade requests for the
\* answers of a COMPLETED submission run with their statements interleaved.
RaceGrade ==
  /\ UNCHANGED access
  /\ \E i \in PairSlots, t \in Teachers, qid \in QuestionIds, m \in FullMarks :
       \E sid \in {j \in DOMAIN submissions : submissions[j].status = "COMPLETED"} :
         GradeRead(i, t, sid, qid, m)

RaceGradeStep ==
  /\ UNCHANGED access
  /\ \E i \in PairSlots : GradeWrite(i) \/ GradeSum(i) \/ GradeFinish(i)

NextGradeRace ==
  StudentStart \/ UngradedSave \/ StudentSubmit \/ RaceGrade \/ RaceGradeStep

SpecGradeRace == Init /\ [][NextGradeRace]_vars

\* SpecSaveRace: student 1 starts; two of the student's save-answer and
\* submit requests run with their statements interleaved.
RaceSave ==
  /\ UNCHANGED access
  /\ \E i \in PairSlots, u \in enrollments, sid \in DOMAIN submissions,
        qid \in QuestionIds :
       \E in \in SaveInputs(qid) : SaveCheck(i, u, sid, qid, in[1], in[2])

RaceSubmit ==
  /\ UNCHANGED access
  /\ \E i \in PairSlots, u \in enrollments, sid \in DOMAIN submissions :
       SubmitRead(i, u, 1, sid)

RaceSaveStep ==
  /\ UNCHANGED access
  /\ \E i \in PairSlots : SaveUpsert(i) \/ SubmitWrite(i)

NextSaveRace == StudentStart \/ RaceSave \/ RaceSubmit \/ RaceSaveStep

SpecSaveRace == Init /\ [][NextSaveRace]_vars

\* SpecStartRace: student 1 may take the assessment up to MaxRetakes times;
\* the student's start and submit requests run with their statements
\* interleaved.
InitRetakes == InitWith(MaxRetakes, {FALSE}, {{1}})

RaceStart ==
  /\ UNCHANGED access
  /\ \E i \in Slots, u \in enrollments, now \in AnyTime : StartCount(i, u, 1, now)

RaceStartStep ==
  /\ UNCHANGED access
  /\ \E i \in Slots : StartFind(i) \/ StartCreate(i) \/ SubmitWrite(i)

NextStartRace == RaceStart \/ RaceSubmit \/ RaceStartStep

SpecStartRace == InitRetakes /\ [][NextStartRace]_vars

\* SpecNumbering: two students take the assessment up to MaxRetakes times
\* while an administrator changes its totalMarks.
InitClass == InitWith(MaxRetakes, {FALSE}, {Students})

NextNumbering == StudentStart \/ StudentSubmit \/ DoUpdate

SpecNumbering == InitClass /\ [][NextNumbering]_vars

\* SpecForeign: student 1 answers, in a submission of assessment 1, the
\* questions of assessment 1 and the question of assessment 2, and submits.
ForeignSave ==
  /\ UNCHANGED access
  /\ \E u \in enrollments, sid \in DOMAIN submissions,
        qid \in ForeignQuestionIds \cup RetiredQuestionIds :
       \E o \in {o \in DOMAIN Options : Options[o].questionId = qid} :
         SaveAnswer(u, sid, qid, o, Undefined)

NextForeign == StudentStart \/ StudentSave \/ ForeignSave \/ StudentSubmit

SpecForeign == Init /\ [][NextForeign]_vars

\* SpecMarks: student 1 answers the choice questions (5 and 15 marks) and
\* submits; a teacher grades these answers with marks in and out of range.
ChoiceSave ==
  /\ UNCHANGED access
  /\ \E u \in enrollments, sid \in DOMAIN submissions,
        qid \in {q \in QuestionIds \cup ForeignQuestionIds : IsChoice(q)} :
       \E o \in {o \in DOMAIN Options : Options[o].questionId = qid} :
         SaveAnswer(u, sid, qid, o, Undefined)

AnyGrade ==
  /\ UNCHANGED access
  /\ \E t \in Teachers, sid \in DOMAIN submissions, qid \in DOMAIN Questions,
        m \in GradeInputs : GradeAnswer(t, sid, qid, m)

NextMarks == StudentStart \/ ChoiceSave \/ AnyGrade \/ StudentSubmit

SpecMarks == Init /\ [][NextMarks]_vars

----------------------------------------------------------------------------
(* Properties of the start route *)

\* The start request of the step, if the step is one: made by user u for the
\* existing, active assessment, with u enrolled in its course.
StartStep(u) ==
  /\ resp'.op = "start"
  /\ resp'.user = u
  /\ resp'.aid = assessment.id
  /\ assessment.isActive
  /\ u \in enrollments

\* C1: whenever an IN_PROGRESS submission exists for the (assessment, user)
\* pair, a StartAttempt call of that enrolled user succeeds, returns that
\* submission's id and leaves the submissions as they are, whatever the
\* attemptNumber of the open submission (1 up to assessment.attempts).
C1_IdempotentResume ==
  [][\A u \in Students :
       LET ip == FindInProgress(submissions, assessment.id, u)
       IN (StartStep(u) /\ ip # NoId)
            => /\ resp'.code = "OK"
               /\ resp'.sid = ip
               /\ submissions' = submissions]_vars

\* C2: with attempts = N unchanged, a user never has more than N submissions
\* of the assessment; a StartAttempt of an enrolled user (assessment active,
\* totalMarks > 0) made with N or more prior submissions fails with
\* AttemptsExceeded and creates nothing, and one made with k < N prior
\* submissions, all of them submitted, succeeds and creates attempt k + 1:
\* so the first N calls succeed and the (N+1)th fails.
C2_AttemptLimit ==
  /\ [](\A u \in Students :
          CountAttempts(submissions, assessment.id, u) <= assessment.attempts)
  /\ [][\A u \in Students :
          LET n == CountAttempts(submissions, assessment.id, u)
              ip == FindInProgress(submissions, assessment.id, u)
          IN (StartStep(u) /\ assessment.totalMarks > 0)
               => /\ n >= assessment.attempts
                       => /\ resp'.code = "AttemptsExceeded"
                          /\ submissions' = submissions
                  /\ (n < assessment.attempts /\ ip = NoId)
                       => /\ resp'.code = "OK"
                          /\ resp'.sid = Len(submissions) + 1
                          /\ Len(submissions') = Len(submissions) + 1
                          /\ SubSeq(submissions', 1, Len(submissions)) = submissions
                          /\ submissions'[resp'.sid].userId = u
                          /\ submissions'[resp'.sid].attemptNumber = n + 1
                          /\ submissions'[resp'.sid].status = "IN_PROGRESS"]_vars

\* C2 witness: a user with a limit of at least two attempts has used them
\* all, submitted each, and the next StartAttempt was refused.
C2_Witness ==
  /\ resp.op = "start"
  /\ resp.code = "AttemptsExceeded"
  /\ assessment.attempts >= 2
  /\ CountAttempts(submissions, assessment.id, resp.user) = assessment.attempts
  /\ FindInProgress(submissions, assessment.id, resp.user) = NoId

----------------------------------------------------------------------------
(* Properties of the review gate *)

Unapproved(subs) ==
  {i \in DOMAIN subs :
     subs[i].status = "COMPLETED" /\ ~subs[i].isCheckedByTeacher}

\* The store with the score of every unapproved COMPLETED submission, and
\* the grading of its answers, replaced by fixed values.
ScrubSubmissions(subs) ==
  [i \in DOMAIN subs |->
     IF i \in Unapproved(subs)
       THEN [subs[i] EXCEPT !.obtainedMarks = 0, !.percentage = 0,
                            !.isPassed = FALSE]
       ELSE subs[i]]

ScrubAnswers(subs, ans) ==
  {IF x.submissionId \in Unapproved(subs)
     THEN [x EXCEPT !.marksObtained = 0, !.isCorrect = FALSE]
     ELSE x : x \in ans}

MyAssessmentsGated ==
  \A u \in Students :
    MyAssessmentsView(assessment, enrollments, submissions, u)
      = MyAssessmentsView(assessment, enrollments,
                          ScrubSubmissions(submissions), u)

MyResultsGated ==
  \A u \in Students :
    /\ MyResultsView(submissions, u)
         = MyResultsView(ScrubSubmissions(submissions), u)
    /\ \A i \in Unapproved(submissions) :
         submissions[i].userId = u
           => MyResultsView(submissions, u)[i].status = "PENDING_REVIEW"

ReviewGated ==
  \A u \in Students, sid \in DOMAIN submissions :
    /\ ReviewView(submissions, answers, u, sid)
         = ReviewView(ScrubSubmissions(submissions),
                      ScrubAnswers(submissions, answers), u, sid)
    /\ sid \in Unapproved(submissions)
         => ReviewView(submissions, answers, u, sid).code # "OK"

CourseProgressGated ==
  \A u \in Students :
    CourseProgressView(assessment, enrollments, submissions, u)
      = CourseProgressView(assessment, enrollments,
                           ScrubSubmissions(submissions), u)

\* C3: for every COMPLETED submission with isCheckedByTeacher = false, each
\* student-facing result query (my-assessments, my-results, submission
\* review, course progress) answers the same whatever the submission's
\* obtainedMarks, percentage, isPassed and the marks of its answers are, and
\* reports it as pending review.
C3_ReviewGateVisibility ==
  /\ MyAssessmentsGated
  /\ MyResultsGated
  /\ ReviewGated
  /\ CourseProgressGated

\* The three queries that check isCheckedByTeacher keep the gate.
GatedQueries == MyResultsGated /\ ReviewGated /\ CourseProgressGated

----------------------------------------------------------------------------
(* Properties of grading and approval *)

\* The grading of the answers of submission sid.
Grading(ans, sid) ==
  {<<x.questionId, x.marksObtained, x.isCorrect>> : x \in AnswersOf(ans, sid)}

\* C5: once a submission is approved (isCheckedByTeacher = true) no later
\* operation changes its obtainedMarks, percentage or isPassed, nor the
\* marksObtained / isCorrect of its answers.
C5_ApprovalTerminalForGrading ==
  [][\A i \in DOMAIN submissions :
       submissions[i].isCheckedByTeacher
         => /\ submissions'[i].obtainedMarks = submissions[i].obtainedMarks
            /\ submissions'[i].percentage = submissions[i].percentage
            /\ submissions'[i].isPassed = submissions[i].isPassed
            /\ Grading(answers', i) = Grading(answers, i)]_vars

\* C6: ApproveReview on a submission that is not COMPLETED fails with
\* InvalidState; on a COMPLETED one it fails with GradingIncomplete exactly
\* when some SHORT_ANSWER / LONG_ANSWER answer has a text and marksObtained
\* 0, and both failures leave the submissions unchanged; otherwise it
\* succeeds and sets isCheckedByTeacher = true, checkedBy = the reviewer and
\* checkedAt, and nothing else.
C6_ApprovePrecondition ==
  [][\A sid \in DOMAIN submissions :
       (resp'.op = "approve" /\ resp'.sid = sid)
         => LET sub == submissions[sid]
                pending ==
                  \E x \in answers :
                    /\ x.submissionId = sid
                    /\ Questions[x.questionId].questionType
                         \in {"SHORT_ANSWER", "LONG_ANSWER"}
                    /\ x.textAnswer # NoText
                    /\ x.marksObtained = 0
            IN /\ sub.status # "COMPLETED"
                    => resp'.code = "InvalidState" /\ submissions' = submissions
               /\ (sub.status = "COMPLETED" /\ pending)
                    => /\ resp'.code = "GradingIncomplete"
                       /\ submissions' = submissions
               /\ (sub.status = "COMPLETED" /\ ~pending)
                    => /\ resp'.code = "OK"
                       /\ submissions' =
                            [submissions EXCEPT
                               ![sid] = [sub EXCEPT
                                           !.isCheckedByTeacher = TRUE,
                                           !.checkedBy = resp'.user,
                                           !.checkedAt = "set"]]]_vars

\* C6 witness: approval of a COMPLETED submission was refused because of a
\* free-text answer with a text and 0 marks, and the submission stays
\* unapproved.
C6_Witness ==
  /\ resp.op = "approve"
  /\ resp.code = "GradingIncomplete"
  /\ submissions[resp.sid].status = "COMPLETED"
  /\ ~submissions[resp.sid].isCheckedByTeacher
  /\ submissions[resp.sid].checkedBy = NoId
  /\ \E x \in AnswersOf(answers, resp.sid) :
       IsFreeText(x.questionId) /\ x.textAnswer = "text" /\ x.marksObtained = 0

\* The marks of the answer of submission sid to question q, 0 without one.
MarksOn(ans, sid, q) ==
  IF \E x \in ans : x.submissionId = sid /\ x.questionId = q
    THEN (CHOOSE x \in ans : x.submissionId = sid /\ x.questionId = q).marksObtained
    ELSE 0

RECURSIVE MarksOver(_, _, _)
MarksOver(ans, sid, Q) ==
  IF Q = {} THEN 0
  ELSE LET q == CHOOSE r \in Q : TRUE
       IN MarksOn(ans, sid, q) + MarksOver(ans, sid, Q \ {q})

\* p (in hundredths) is obtained / total * 100 rounded to 2 decimals.
IsRounded(p, obtained, total) ==
  /\ 2 * (p * total - 10000 * obtained) <= total
  /\ 2 * (10000 * obtained - p * total) < total

\* C7: a Submit by the owner of an IN_PROGRESS submission whose answers'
\* marks sum to M, with the assessment's current totalMarks T > 0 and
\* passingMarks P, succeeds and stores status = COMPLETED, obtainedMarks =
\* M, percentage = M / T * 100 rounded to 2 decimals, isPassed = (M >= P)
\* and isCheckedByTeacher = false, and changes nothing else.
C7_SubmitComputation ==
  [][\A sid \in DOMAIN submissions :
       LET sub == submissions[sid]
           M == MarksOver(answers, sid, QuestionIds)
           T == assessment.totalMarks
       IN (/\ resp'.op = "submit" /\ resp'.sid = sid
           /\ resp'.user = sub.userId /\ resp'.aid = sub.assessmentId
           /\ sub.status = "IN_PROGRESS" /\ T > 0)
            => /\ resp'.code = "OK"
               /\ submissions'[sid].status = "COMPLETED"
               /\ submissions'[sid].obtainedMarks = M
               /\ IsRounded(submissions'[sid].percentage, M, T)
               /\ submissions'[sid].isPassed = (M >= assessment.passingMarks)
               /\ submissions'[sid].isCheckedByTeacher = FALSE
               /\ submissions'[sid].totalMarks = sub.totalMarks
               /\ \A j \in DOMAIN submissions :
                    j # sid => submissions'[j] = submissions[j]
               /\ answers' = answers]_vars

\* C7 witness: a submission started with totalMarks 10 was submitted after
\* totalMarks became 30, with 5 marks: 16.67 percent, passed.
C7_Witness ==
  /\ resp.op = "submit"
  /\ resp.code = "OK"
  /\ assessment.totalMarks = 30
  /\ submissions[resp.sid].totalMarks = 10
  /\ submissions[resp.sid].obtainedMarks = 5
  /\ submissions[resp.sid].percentage = 1667
  /\ submissions[resp.sid].isPassed

\* C10: a GradeAnswer call on an existing answer with marksObtained < 0 or
\* > question.marks is rejected with MarksOutOfRange and changes neither
\* the answers nor the submissions; a call with 0 <= marksObtained <=
\* question.marks is accepted and stores the marks.
C10_GradeRangeCheck ==
  [][\A sid \in DOMAIN submissions, qid \in QuestionIds :
       (/\ resp'.op = "grade" /\ resp'.sid = sid /\ resp'.qid = qid
        /\ \E x \in answers : x.submissionId = sid /\ x.questionId = qid)
         => LET m == resp'.marks
            IN /\ (m < 0 \/ m > Questions[qid].marks)
                    => /\ resp'.code = "MarksOutOfRange"
                       /\ answers' = answers
                       /\ submissions' = submissions
               /\ (0 <= m /\ m <= Questions[qid].marks)
                    => /\ resp'.code = "OK"
                       /\ MarksOn(answers', sid, qid) = m]_vars

\* C10 witness: a grade above the question's marks was refused for an
\* answer that holds marks from an earlier grading.
C10_Witness ==
  /\ resp.op = "grade"
  /\ resp.code = "MarksOutOfRange"
  /\ resp.marks > Questions[resp.qid].marks
  /\ MarksOn(answers, resp.sid, resp.qid) = 2
  /\ submissions[resp.sid].obtainedMarks = 2

\* C11: after an accepted GradeAnswer(answer, m), run with no other request
\* interleaved, the answer has marksObtained = m and isCorrect = (m =
\* question.marks), and its submission has obtainedMarks = the sum of
\* marksObtained over all of its answers, percentage = obtainedMarks /
\* assessment.totalMarks * 100 rounded to 2 decimals and isPassed =
\* (obtainedMarks >= assessment.passingMarks); for a first grading and for a
\* re-grading alike.
C11_GradeRecomputation ==
  [][\A sid \in DOMAIN submissions, qid \in DOMAIN Questions :
       (/\ resp'.op = "grade" /\ resp'.code = "OK"
        /\ resp'.sid = sid /\ resp'.qid = qid)
         => LET m == resp'.marks
                M == MarksOver(answers', sid, DOMAIN Questions)
            IN /\ \A x \in answers' :
                    (x.submissionId = sid /\ x.questionId = qid)
                      => /\ x.marksObtained = m
                         /\ x.isCorrect = (m = Questions[qid].marks)
               /\ \E x \in answers' : x.submissionId = sid /\ x.questionId = qid
               /\ submissions'[sid].obtainedMarks = M
               /\ IsRounded(submissions'[sid].percentage, M,
                            assessment.totalMarks)
               /\ submissions'[sid].isPassed = (M >= assessment.passingMarks)]_vars

\* C11 witness: a submitted attempt started with totalMarks 10 holds 5 marks
\* for the choice question and, after totalMarks became 15, its long answer
\* was graded 2: 7 marks, 46.67 percent, passed.
C11_Witness ==
  /\ resp.op = "grade"
  /\ resp.code = "OK"
  /\ resp.marks = 2
  /\ assessment.totalMarks = 15
  /\ submissions[resp.sid].totalMarks = 10
  /\ submissions[resp.sid].status = "COMPLETED"
  /\ MarksOn(answers, resp.sid, 1) = 5
  /\ MarksOn(answers, resp.sid, 2) = 2
  /\ submissions[resp.sid].obtainedMarks = 7
  /\ submissions[resp.sid].percentage = 4667
  /\ submissions[resp.sid].isPassed

----------------------------------------------------------------------------
(* Properties of the save-answer route *)

\* The step is a save-answer request for submission sid and question qid.
SaveStep(sid, qid) ==
  resp'.op = "save" /\ resp'.sid = sid /\ resp'.qid = qid

\* C12: there is at most one SubmissionAnswer per (submissionId,
\* questionId); a SaveAnswer for a pair that has an answer overwrites it
\* and adds no row; a SaveAnswer repeated with the same inputs leaves the
\* stored answers as they were after the first call.
C12_IdempotentUpsert ==
  /\ [](\A x, y \in answers :
          (x.submissionId = y.submissionId /\ x.questionId = y.questionId)
            => x = y)
  /\ [][\A sid \in DOMAIN submissions, qid \in DOMAIN Questions :
          (SaveStep(sid, qid) /\ resp'.code = "OK")
            => /\ Row(answers, sid, qid) # {}
                    => Cardinality(answers') = Cardinality(answers)
               /\ Row(answers, sid, qid) = {}
                    => Cardinality(answers') = Cardinality(answers) + 1
               /\ resp' = resp => answers' = answers]_vars

\* C12 witness: the answer to the choice question was saved with the
\* correct option and saved again without an option: still one row, with
\* the option kept and the marks overwritten.
C12_Witness ==
  /\ resp.op = "save"
  /\ resp.code = "OK"
  /\ resp.body[1] = -1
  /\ \E x \in answers :
       /\ Row(answers, resp.sid, resp.qid) = {x}
       /\ x.selectedOptionId = 2
       /\ x.marksObtained = 0

\* The option sel is an option of question q flagged isCorrect.
CorrectOptionOf(q, sel) ==
  /\ sel \in DOMAIN Options
  /\ Options[sel].questionId = q
  /\ Options[sel].isCorrect

\* C13: after a successful SaveAnswer on a MULTIPLE_CHOICE or TRUE_FALSE
\* question the stored answer has isCorrect = true and marksObtained =
\* question.marks if the option selected in the request is an option of
\* that question flagged isCorrect, and isCorrect = false and marksObtained
\* = 0 otherwise; on a SHORT_ANSWER or LONG_ANSWER question it has isCorrect
\* = false and marksObtained = 0.
C13_AutoGrading ==
  [][\A sid \in DOMAIN submissions, qid \in DOMAIN Questions :
       (SaveStep(sid, qid) /\ resp'.code = "OK")
         => LET sel == resp'.body[1]
                type == Questions[qid].questionType
                full == /\ type \in {"MULTIPLE_CHOICE", "TRUE_FALSE"}
                        /\ CorrectOptionOf(qid, sel)
            IN /\ \E x \in answers' :
                    x.submissionId = sid /\ x.questionId = qid
               /\ \A x \in answers' :
                    (x.submissionId = sid /\ x.questionId = qid)
                      => /\ x.isCorrect = full
                         /\ x.marksObtained =
                              IF full THEN Questions[qid].marks ELSE 0]_vars

\* C13 witness: the choice question was answered with the correct option of
\* another question: not correct, 0 marks.
C13_Witness ==
  /\ resp.op = "save"
  /\ resp.code = "OK"
  /\ IsChoice(resp.qid)
  /\ resp.body[1] \in DOMAIN Options
  /\ Options[resp.body[1]].isCorrect
  /\ Options[resp.body[1]].questionId # resp.qid
  /\ \E x \in Row(answers, resp.sid, resp.qid) :
       ~x.isCorrect /\ x.marksObtained = 0

\* C14: a SaveAnswer call whose submission does not exist, is not owned by
\* the caller or is not IN_PROGRESS, or whose question does not exist, fails
\* and creates or changes no SubmissionAnswer.
C14_SaveRejection ==
  [][resp'.op = "save"
       => LET sid == resp'.sid
              u == resp'.user
          IN (\/ sid \notin DOMAIN submissions
              \/ submissions[sid].userId # u
              \/ submissions[sid].status # "IN_PROGRESS"
              \/ resp'.qid \notin DOMAIN Questions)
               => resp'.code # "OK" /\ answers' = answers]_vars

\* C14 witness: a student's save-answer for the open submission of another
\* student, which holds answers, was refused.
C14_Witness ==
  /\ resp.op = "save"
  /\ resp.code = "SubmissionClosed"
  /\ resp.sid \in DOMAIN submissions
  /\ submissions[resp.sid].status = "IN_PROGRESS"
  /\ submissions[resp.sid].userId # resp.user
  /\ resp.qid \in DOMAIN Questions
  /\ AnswersOf(answers, resp.sid) # {}

\* C18: a SaveAnswer call, accepted or refused, leaves every submission as
\* it is (status, obtainedMarks, percentage, isPassed, totalMarks,
\* isCheckedByTeacher) and changes at most the one SubmissionAnswer keyed by
\* its (submissionId, questionId).
C18_SaveFrame ==
  [][resp'.op = "save"
       => /\ submissions' = submissions
          /\ assessment' = assessment
          /\ \A x \in answers \cup answers' :
               (x.submissionId # resp'.sid \/ x.questionId # resp'.qid)
                 => (x \in answers /\ x \in answers')]_vars

\* C18 witness: the long answer was saved in a submission that holds the
\* 5 marks of the choice question; the submission's aggregate is still 0.
C18_Witness ==
  /\ resp.op = "save"
  /\ resp.code = "OK"
  /\ resp.qid = 2
  /\ MarksOn(answers, resp.sid, 1) = 5
  /\ Row(answers, resp.sid, 2) # {}
  /\ submissions[resp.sid].status = "IN_PROGRESS"
  /\ submissions[resp.sid].obtainedMarks = 0
  /\ submissions[resp.sid].percentage = 0

\* C15: a Submit call fails and leaves the submissions and the answers
\* unchanged when the submission does not exist, is not owned by the caller,
\* does not belong to the given assessmentId or is not IN_PROGRESS (so a
\* second Submit of a submission fails), or when the assessment's totalMarks
\* is <= 0; in that last case alone the failure is InvalidConfiguration and
\* the submission stays IN_PROGRESS.
C15_SubmitRejection ==
  [][resp'.op = "submit"
       => LET sid == resp'.sid
              found == /\ sid \in DOMAIN submissions
                       /\ submissions[sid].userId = resp'.user
                       /\ submissions[sid].assessmentId = resp'.aid
                       /\ submissions[sid].status = "IN_PROGRESS"
          IN /\ (~found \/ assessment.totalMarks <= 0)
                  => /\ resp'.code # "OK"
                     /\ submissions' = submissions
                     /\ answers' = answers
             /\ (found /\ assessment.totalMarks <= 0)
                  => /\ resp'.code = "InvalidConfiguration"
                     /\ submissions'[sid].status = "IN_PROGRESS"]_vars

\* C15 witness: the owner's Submit of an open submission with a saved
\* answer was refused because totalMarks had become negative.
C15_Witness ==
  /\ resp.op = "submit"
  /\ resp.code = "InvalidConfiguration"
  /\ assessment.totalMarks < 0
  /\ submissions[resp.sid].status = "IN_PROGRESS"
  /\ submissions[resp.sid].userId = resp.user
  /\ AnswersOf(answers, resp.sid) # {}

\* C19: a StartAttempt call fails and leaves the submissions unchanged when
\* the assessment does not exist or is inactive (NotFound), else when the
\* caller is not enrolled (Forbidden), else when the instant of the request
\* is before a set startDate or after a set endDate, else when no attempt is
\* open and totalMarks is <= 0 (InvalidConfiguration unless the attempts
\* are used up).
C19_StartRejection ==
  [][resp'.op = "start"
       => LET u == resp'.user
              now == resp'.body[1]
              found == resp'.aid = assessment.id /\ assessment.isActive
              enrolled == u \in enrollments
              outside ==
                \/ assessment.startDate # NoDate /\ now < assessment.startDate
                \/ assessment.endDate # NoDate /\ now > assessment.endDate
              fresh ==
                ~\E i \in DOMAIN submissions :
                   /\ submissions[i].assessmentId = assessment.id
                   /\ submissions[i].userId = u
                   /\ submissions[i].status = "IN_PROGRESS"
              used ==
                Cardinality({i \in DOMAIN submissions :
                               /\ submissions[i].assessmentId = assessment.id
                               /\ submissions[i].userId = u})
          IN /\ ~found
                  => resp'.code = "NotFound" /\ submissions' = submissions
             /\ (found /\ ~enrolled)
                  => resp'.code = "Forbidden" /\ submissions' = submissions
             /\ (found /\ enrolled /\ outside)
                  => /\ resp'.code \in {"NotStarted", "Ended"}
                     /\ submissions' = submissions
             /\ (found /\ enrolled /\ ~outside /\ fresh
                   /\ assessment.totalMarks <= 0)
                  => /\ resp'.code # "OK"
                     /\ submissions' = submissions
                     /\ used < assessment.attempts
                          => resp'.code = "InvalidConfiguration"]_vars

\* C19 witness: the fresh attempt of an enrolled student at an active
\* assessment, inside its window, was refused because totalMarks is
\* negative.
C19_Witness ==
  /\ resp.op = "start"
  /\ resp.code = "InvalidConfiguration"
  /\ resp.user \in enrollments
  /\ assessment.isActive
  /\ assessment.totalMarks < 0
  /\ assessment.startDate # NoDate
  /\ assessment.endDate # NoDate
  /\ submissions = <<>>

----------------------------------------------------------------------------
(* The guarded routes: start, submit and approve-review behind authorize,
   while an administrator grants and revokes capabilities, changes the role
   of users and deletes users. *)

Callers == Students \cup Teachers

GuardedStart ==
  /\ UNCHANGED access
  /\ \E u \in Callers, now \in AnyTime :
       Route("start", u, "start_taking_assessment", StartAttempt(u, 1, now))

GuardedSubmit ==
  /\ UNCHANGED access
  /\ \E u \in Callers, sid \in DOMAIN submissions :
       Route("submit", u, "submit_assessment", Submit(u, 1, sid))

GuardedApprove ==
  /\ UNCHANGED access
  /\ \E t \in Callers, sid \in DOMAIN submissions :
       Route("approve", t, "approve_submission_review", ApproveReview(t, sid))

AdminAssign ==
  \E r \in RoleIds, c \in Capabilities, granted \in BOOLEAN :
    AssignCapability(r, c, granted)

AdminUpdateUser ==
  \E u \in Callers, r \in RoleIds \cup {NoId} : UpdateUser(u, r)

AdminDeleteUser ==
  \E u \in Callers : DeleteUser(u)

NextAuth ==
  \/ GuardedStart
  \/ GuardedSubmit
  \/ GuardedApprove
  \/ AdminAssign
  \/ AdminUpdateUser
  \/ AdminDeleteUser

SpecAuth == Init /\ [][NextAuth]_vars

\* SpecReview: student 1 takes the assessment up to MaxRetakes times, the
\* teacher approves, and an administrator deletes users.
NextReview ==
  GuardedStart \/ GuardedSubmit \/ GuardedApprove \/ AdminDeleteUser

SpecReview == InitRetakes /\ [][NextReview]_vars

\* The capability the route of an operation is guarded with.
CapabilityOf(op) ==
  IF op = "start" THEN "start_taking_assessment"
  ELSE IF op = "submit" THEN "submit_assessment"
  ELSE "approve_submission_review"

\* The caller exists and the caller's role holds the capability.
Holds(u, c) ==
  /\ u \in DOMAIN users
  /\ users[u] # NoId
  /\ <<users[u], c>> \in roleCapabilities

\* C20: a request to a guarded route whose caller does not exist, or whose
\* role does not hold the route's capability, ends with 401 (no such user)
\* or 403 (capability missing) and changes no core state; the handler runs
\* only for a caller that exists and holds the capability.
C20_CapabilityGate ==
  [][(resp'.op \in {"start", "submit", "approve"}
        /\ ~Holds(resp'.user, CapabilityOf(resp'.op)))
       => /\ resp'.code = IF resp'.user \in DOMAIN users
                            THEN "AccessDenied" ELSE "UserNotFound"
          /\ UNCHANGED store]_vars

\* The part of C20 the middleware keeps: without the capability the handler
\* does not run and no core state changes, whatever the answer is.
C20_HandlerGated ==
  [][(resp'.op \in {"start", "submit", "approve"}
        /\ ~Holds(resp'.user, CapabilityOf(resp'.op)))
       => /\ resp'.code \in {"UserNotFound", "AccessDenied",
                              "AuthorizationFailed"}
          /\ UNCHANGED store]_vars

\* A student whose role was taken away asked for a guarded route.
C20_RolelessCaller ==
  /\ resp.op \in {"start", "submit", "approve"}
  /\ resp.user \in DOMAIN users
  /\ users[resp.user] = NoId
  /\ resp.code = "AuthorizationFailed"

----------------------------------------------------------------------------
(* Properties of requests whose statements interleave *)

Quiescent == \A i \in Slots : reqs[i] = Idle

\* C21: a grade request writes to the submission the sum it read in its own
\* findMany, with its own marks for its own answer, whatever other grade
\* requests wrote to the answers since: the later write wins.  So two
\* concurrent grade requests for different answers of one submission can
\* both complete and leave obtainedMarks different from the sum of the
\* answers' marks (C21_Witness).
C21_LaterWriteWins ==
  [][\A i \in Slots :
       /\ (reqs[i].op = "grade" /\ reqs[i].pc = "sum" /\ reqs'[i] # reqs[i])
            => reqs'[i].val =
                 SumMarks({x \in AnswersOf(answers, reqs[i].sid) :
                             x.questionId # reqs[i].qid}) + reqs[i].marks
       /\ (reqs[i].op = "grade" /\ reqs[i].pc = "update" /\ reqs'[i] # reqs[i])
            => /\ submissions'[reqs[i].sid].obtainedMarks = reqs[i].val
               /\ answers' = answers]_vars

\* C21 witness: no request is in flight, both answers of a COMPLETED
\* submission were graded with 5 marks by two grade requests that both
\* completed, and obtainedMarks is 5, not the sum 10.
C21_Witness ==
  /\ Quiescent
  /\ resp.op = "grade"
  /\ resp.code = "OK"
  /\ submissions[resp.sid].status = "COMPLETED"
  /\ \A q \in QuestionIds :
       \E x \in AnswersOf(answers, resp.sid) :
         x.questionId = q /\ x.marksObtained = 5
  /\ submissions[resp.sid].obtainedMarks = 5
  /\ SumMarks(AnswersOf(answers, resp.sid)) = 10

\* C22: with the check and the upsert of save-answer as separate
\* statements and submit running concurrently, an upsert changes the answers
\* only of a submission that is IN_PROGRESS, and a COMPLETED submission's
\* obtainedMarks is the sum of the marks of its stored answers (no grade
\* request runs).
C22_SaveOnlyInProgress ==
  /\ [][\A x \in answers' :
          x \notin answers
            => submissions[x.submissionId].status = "IN_PROGRESS"]_vars
  /\ [](\A sid \in DOMAIN submissions :
          (submissions[sid].status = "COMPLETED" /\ Quiescent)
            => submissions[sid].obtainedMarks
                 = SumMarks(AnswersOf(answers, sid)))

\* The upsert of a save-answer request changed the answers of a submission
\* that submit had completed before.
C22_LateUpsert ==
  /\ Quiescent
  /\ resp.op = "save"
  /\ resp.code = "OK"
  /\ submissions[resp.sid].status = "COMPLETED"
  /\ submissions[resp.sid].obtainedMarks = 0
  /\ SumMarks(AnswersOf(answers, resp.sid)) = 5

\* C23: when the create of a start request is refused by the unique index
\* on (assessmentId, userId, attemptNumber), because a concurrent request
\* that read the same count created the row first, no submission is
\* created and the caller is answered ConcurrentAttemptConflict, not the
\* generic internal error.
C23_ConflictReported ==
  [][\A i \in Slots :
       (/\ reqs[i].op = "start" /\ reqs[i].pc = "create" /\ reqs'[i] # reqs[i]
        /\ AttemptNumberTaken(submissions, reqs[i].aid, reqs[i].user,
                               reqs[i].val + 1))
         => /\ submissions' = submissions
            /\ resp'.op = "start"
            /\ resp'.code = "ConcurrentAttemptConflict"]_vars

\* The losing start request of a race was answered the generic internal
\* error, and one submission was created.
C23_LoserAnswered500 ==
  /\ Quiescent
  /\ resp.op = "start"
  /\ resp.code = "InternalError"
  /\ Len(submissions) = 1

\* The IN_PROGRESS submissions of user u for assessment a.
OpenAttempts(a, u) ==
  {i \in DOMAIN submissions :
     /\ submissions[i].assessmentId = a
     /\ submissions[i].userId = u
     /\ submissions[i].status = "IN_PROGRESS"}

\* C26: in every state, under every interleaving of the statements of
\* concurrent start and submit requests, a user has at most one IN_PROGRESS
\* submission of an assessment.
C26_SingleOpenAttempt ==
  \A a \in AssessmentIds, u \in Students : Cardinality(OpenAttempts(a, u)) <= 1

\* C26 witness: a second attempt is open after the first was submitted,
\* and a start request that raced for it lost to the unique index.
C26_Witness ==
  /\ resp.op = "start"
  /\ resp.code = "InternalError"
  /\ Len(submissions) = 2
  /\ submissions[1].status = "COMPLETED"
  /\ submissions[2].status = "IN_PROGRESS"
  /\ submissions[2].attemptNumber = 2

\* C27: the attemptNumbers of the submissions of a user for an assessment
\* are exactly 1..k, without duplicates, with k <= assessment.attempts; a
\* newly created submission has attemptNumber = (number of the pair's
\* submissions before) + 1 and totalMarks = the assessment's totalMarks at
\* that time.
C27_AttemptNumbering ==
  /\ [](\A a \in AssessmentIds, u \in Students :
          LET mine == SubmissionsOf(submissions, a, u)
          IN /\ {submissions[i].attemptNumber : i \in mine}
                  = 1..Cardinality(mine)
             /\ Cardinality(mine) <= assessment.attempts)
  /\ [][/\ Len(submissions') <= Len(submissions) + 1
         /\ \A i \in DOMAIN submissions' \ DOMAIN submissions :
              LET new == submissions'[i]
              IN /\ new.attemptNumber
                      = Cardinality(SubmissionsOf(submissions, new.assessmentId,
                                                  new.userId)) + 1
                 /\ new.totalMarks = assessment.totalMarks]_vars

\* C27 witness: the second attempt of student 1 was created after
\* totalMarks was changed from 10 to 15; the attempts are numbered 1 and 2
\* and hold 10 and 15.
C27_Witness ==
  /\ resp.op = "start"
  /\ resp.code = "OK"
  /\ assessment.attempts = 2
  /\ \E i, j \in SubmissionsOf(submissions, 1, 1) :
       /\ submissions[i].attemptNumber = 1
       /\ submissions[i].totalMarks = 10
       /\ submissions[j].attemptNumber = 2
       /\ submissions[j].totalMarks = 15
       /\ resp.sid = j

\* The aggregate fields of a submission.
Aggregate(sub) == <<sub.obtainedMarks, sub.percentage, sub.isPassed>>

\* C25: an IN_PROGRESS submission has obtainedMarks 0, percentage 0 and
\* isPassed false; the three fields are written by the Submit of the
\* submission and, once it is COMPLETED, by GradeAnswer, so a GradeAnswer
\* on an answer of an IN_PROGRESS submission leaves them as they are.
C25_GradeOnlySubmitted ==
  /\ [](\A i \in DOMAIN submissions :
          submissions[i].status = "IN_PROGRESS"
            => Aggregate(submissions[i]) = <<0, 0, FALSE>>)
  /\ [][\A i \in DOMAIN submissions :
          Aggregate(submissions'[i]) # Aggregate(submissions[i])
            => /\ resp'.sid = i
               /\ \/ resp'.op = "submit"
                  \/ /\ resp'.op = "grade"
                     /\ submissions[i].status = "COMPLETED"]_vars

\* A grade of 5 marks for the long answer of a submission that is still
\* IN_PROGRESS was accepted and wrote the submission's aggregate.
C25_GradedInProgress ==
  /\ resp.op = "grade"
  /\ resp.code = "OK"
  /\ submissions[resp.sid].status = "IN_PROGRESS"
  /\ Aggregate(submissions[resp.sid]) = <<5, 5000, TRUE>>

\* The questions of assessment a as rows carrying their full marks.
FullMarksOf(a) ==
  {[questionId |-> q, marksObtained |-> Questions[q].marks] :
     q \in {r \in DOMAIN Questions : Questions[r].assessmentId = a}}

\* C28: the question of every stored answer belongs to the assessment of
\* the answer's submission, so the marks of a submission's answers sum to
\* no more than the marks of the questions of its assessment.
C28_AnswersWithinAssessment ==
  /\ \A x \in answers :
       Questions[x.questionId].assessmentId
         = submissions[x.submissionId].assessmentId
  /\ \A sid \in DOMAIN submissions :
       SumMarks(AnswersOf(answers, sid))
         <= SumMarks(FullMarksOf(submissions[sid].assessmentId))

\* A submission of assessment 1, whose questions carry 12 marks, was
\* submitted with 22 marks, 15 of them for the question of assessment 2.
C28_ForeignMarks ==
  /\ resp.op = "submit"
  /\ resp.code = "OK"
  /\ submissions[resp.sid].assessmentId = 1
  /\ MarksOn(answers, resp.sid, 5) = 15
  /\ submissions[resp.sid].obtainedMarks = 22
  /\ SumMarks(FullMarksOf(1)) = 12

\* C29: every stored answer has 0 <= marksObtained <= marks of its
\* question, and marksObtained = marks of its question if isCorrect, after
\* any sequence of accepted and rejected SaveAnswer and GradeAnswer calls.
C29_AnswerMarksBound ==
  \A x \in answers :
    /\ 0 <= x.marksObtained
    /\ x.marksObtained <= Questions[x.questionId].marks
    /\ x.isCorrect => x.marksObtained = Questions[x.questionId].marks

\* C29 witness: a grade of 6 marks was refused for the answer to the
\* 5-mark choice question, which was saved with the correct option (5
\* marks, correct), while the answer to the 15-mark question holds 6 marks
\* given by the teacher and is no longer correct.
C29_Witness ==
  /\ resp.op = "grade"
  /\ resp.code = "MarksOutOfRange"
  /\ resp.qid = 1
  /\ resp.marks = 6
  /\ \E x, y \in AnswersOf(answers, resp.sid) :
       /\ x.questionId = 1 /\ x.isCorrect /\ x.marksObtained = 5
       /\ y.questionId = 5 /\ ~y.isCorrect /\ y.marksObtained = 6

\* C30 as stated: a submission with isCheckedByTeacher = true is COMPLETED
\* and has checkedBy and checkedAt set; an IN_PROGRESS submission has
\* isCheckedByTeacher = false.
C30_AsStated ==
  \A i \in DOMAIN submissions :
    /\ submissions[i].isCheckedByTeacher
         => /\ submissions[i].status = "COMPLETED"
            /\ submissions[i].checkedBy # NoId
            /\ submissions[i].checkedAt # NoText
    /\ submissions[i].status = "IN_PROGRESS"
         => ~submissions[i].isCheckedByTeacher

\* C30: a submission with isCheckedByTeacher = true is COMPLETED and has
\* checkedAt set; its checkedBy is an existing user, or null once a user
\* was deleted; a submission that was never approved has neither; an
\* IN_PROGRESS submission has isCheckedByTeacher = false.
C30_ApprovalImpliesCompletion ==
  \A i \in DOMAIN submissions :
    /\ submissions[i].isCheckedByTeacher
         => /\ submissions[i].status = "COMPLETED"
            /\ submissions[i].checkedAt # NoText
            /\ IF submissions[i].checkedBy = NoId
                 THEN \E t \in Callers : t \notin DOMAIN users
                 ELSE submissions[i].checkedBy \in DOMAIN users
    /\ ~submissions[i].isCheckedByTeacher
         => submissions[i].checkedBy = NoId /\ submissions[i].checkedAt = NoText
    /\ submissions[i].status = "IN_PROGRESS"
         => ~submissions[i].isCheckedByTeacher

\* C30 witness: the first attempt of student 1 was approved by the teacher,
\* whose user was deleted afterwards (checkedBy null, checkedAt set), and
\* the second attempt is open and not approved.
C30_Witness ==
  /\ Teachers \cap DOMAIN users = {}
  /\ \E i, j \in SubmissionsOf(submissions, 1, 1) :
       /\ submissions[i].isCheckedByTeacher
       /\ submissions[i].status = "COMPLETED"
       /\ submissions[i].checkedBy = NoId
       /\ submissions[i].checkedAt # NoText
       /\ submissions[j].status = "IN_PROGRESS"
       /\ ~submissions[j].isCheckedByTeacher

\* C24: the upsert of a save-answer request, whatever other save-answer
\* requests are in flight, leaves every answer of another (submission,
\* question) as it is and stores for its own question one answer with the
\* fields the request computed; so two requests for different questions
\* end, in every interleaving, with both answers stored as either
\* sequential order stores them.
C24_IndependentSaves ==
  [][\A i \in Slots :
       (reqs[i].op = "save" /\ reqs[i].pc = "upsert" /\ reqs'[i] # reqs[i])
         => LET r == reqs[i]
            IN /\ \A x \in answers \cup answers' :
                    (x.submissionId # r.sid \/ x.questionId # r.qid)
                      => (x \in answers /\ x \in answers')
               /\ \E x \in answers' :
                    /\ Row(answers', r.sid, r.qid) = {x}
                    /\ x.isCorrect = (IsChoice(r.qid) /\ CorrectOptionOf(r.qid, r.sel))
                    /\ x.marksObtained = IF x.isCorrect
                                            THEN Questions[r.qid].marks ELSE 0
                    /\ r.sel # -1 => x.selectedOptionId = r.sel
                    /\ r.text # Undefined => x.textAnswer = r.text]_vars

\* C24 witness: the save of the correct option for question 1 has answered
\* while a save for question 2 of the same submission, which has no answer
\* for question 2 yet, is between its check and its upsert.
C24_Witness ==
  /\ resp.op = "save"
  /\ resp.code = "OK"
  /\ resp.qid = 1
  /\ MarksOn(answers, resp.sid, 1) = 5
  /\ Row(answers, resp.sid, 2) = {}
  /\ \E i \in Slots :
       /\ reqs[i].op = "save"
       /\ reqs[i].pc = "upsert"
       /\ reqs[i].sid = resp.sid
       /\ reqs[i].qid = 2

\* C16: a submission is created with status IN_PROGRESS; the only change of
\* status any operation makes is IN_PROGRESS -> COMPLETED, made only by
\* Submit of that submission; a COMPLETED submission keeps its status, and
\* no submission ever has status ABANDONED or TIME_UP.
C16_StatusMachine ==
  /\ [](\A i \in DOMAIN submissions :
          submissions[i].status \in {"IN_PROGRESS", "COMPLETED"})
  /\ [][/\ Len(submissions') >= Len(submissions)
         /\ \A i \in DOMAIN submissions' :
              IF i \in DOMAIN submissions
                THEN submissions'[i].status # submissions[i].status
                       => /\ submissions[i].status = "IN_PROGRESS"
                          /\ submissions'[i].status = "COMPLETED"
                          /\ resp'.op = "submit"
                          /\ resp'.sid = i
                ELSE submissions'[i].status = "IN_PROGRESS"]_vars

\* C16 witness: a submission that was submitted, graded and approved, and
\* graded again after that, is COMPLETED.
C16_Witness ==
  /\ resp.op = "grade"
  /\ resp.code = "OK"
  /\ submissions[resp.sid].status = "COMPLETED"
  /\ submissions[resp.sid].isCheckedByTeacher
  /\ submissions[resp.sid].obtainedMarks > 0

\* The options table with other correctness flags.
Reflag(opts, flags) ==
  [o \in DOMAIN opts |-> [opts[o] EXCEPT !.isCorrect = flags[o]]]

\* C17: the questions returned by a successful StartAttempt, fresh or
\* resumed, are active questions of the assessment, each with exactly its
\* options, sorted by their order and reduced to the id and the text, without
\* the isCorrect flag; the response is the same whichever options are
\* flagged correct.
C17_NoCorrectnessLeak ==
  [][(resp'.op = "start" /\ resp'.code = "OK")
       => LET body == resp'.order
              ids == [i \in DOMAIN body |-> body[i].id]
          IN /\ \A i \in DOMAIN body :
                  LET q == body[i].id
                      os == body[i].options
                  IN /\ q \in DOMAIN Questions
                     /\ Questions[q].assessmentId = assessment.id
                     /\ Questions[q].isActive
                     /\ {os[k].id : k \in DOMAIN os}
                          = {o \in DOMAIN Options : Options[o].questionId = q}
                     /\ \A k, l \in DOMAIN os :
                          k < l => Options[os[k].id].order < Options[os[l].id].order
                     /\ \A k \in DOMAIN os :
                          /\ DOMAIN os[k] = {"id", "optionText"}
                          /\ os[k].optionText = Options[os[k].id].optionText
             /\ \A flags \in [DOMAIN Options -> BOOLEAN] :
                  FormatQuestions(ids, Questions, Reflag(Options, flags)) = body]_vars

\* C17 witness: a shuffled start returned the long answer first and the
\* choice question with its options in their order (2, 1), id and text only.
C17_Witness ==
  /\ resp.op = "start"
  /\ resp.code = "OK"
  /\ assessment.randomizeQuestions
  /\ Len(resp.order) = 2
  /\ resp.order[1].id = 2
  /\ resp.order[2].id = 1
  /\ resp.order[2].options = <<[id |-> 2, optionText |-> OptionText(2)],
                               [id |-> 1, optionText |-> OptionText(1)]>>

----------------------------------------------------------------------------
(* The end-to-end scenario: totalMarks 10, passingMarks 5, the 5-mark choice
   question answered with the correct option, the 5-mark long answer with a
   text *)

ScenarioAnswers(sid, longMarks) ==
  AnswersOf(answers, sid) =
    {[submissionId |-> sid, questionId |-> 1, selectedOptionId |-> 2,
      textAnswer |-> NoText, isCorrect |-> TRUE, marksObtained |-> 5],
     [submissionId |-> sid, questionId |-> 2, selectedOptionId |-> NoId,
      textAnswer |-> "text", isCorrect |-> (longMarks = 5),
      marksObtained |-> longMarks]}

ScenarioConfig ==
  assessment.totalMarks = 10 /\ assessment.passingMarks = 5

\* Both answers saved, nothing graded, not yet submitted.
ScenarioSaved(sid) ==
  /\ ScenarioConfig
  /\ submissions[sid].status = "IN_PROGRESS"
  /\ ScenarioAnswers(sid, 0)

\* Submitted, the long answer not yet graded.
ScenarioSubmitted(sid) ==
  /\ ScenarioConfig
  /\ submissions[sid].status = "COMPLETED"
  /\ ~submissions[sid].isCheckedByTeacher
  /\ submissions[sid].obtainedMarks = 5
  /\ ScenarioAnswers(sid, 0)

\* Submitted and the long answer graded with 5.
ScenarioGraded(sid) ==
  /\ ScenarioConfig
  /\ submissions[sid].status = "COMPLETED"
  /\ ~submissions[sid].isCheckedByTeacher
  /\ ScenarioAnswers(sid, 5)

\* The three steps of the scenario, with the isPassed value `passed` after
\* the Submit.
ScenarioSteps(sid, passed) ==
  /\ (/\ ScenarioSaved(sid) /\ resp'.op = "submit" /\ resp'.sid = sid
      /\ resp'.user = submissions[sid].userId
      /\ resp'.aid = submissions[sid].assessmentId)
       => /\ submissions'[sid].status = "COMPLETED"
          /\ submissions'[sid].obtainedMarks = 5
          /\ submissions'[sid].percentage = 5000
          /\ submissions'[sid].isPassed = passed
          /\ submissions'[sid].isCheckedByTeacher = FALSE
  /\ (/\ ScenarioSubmitted(sid) /\ resp'.op = "grade" /\ resp'.sid = sid
      /\ resp'.qid = 2 /\ resp'.marks = 5)
       => /\ submissions'[sid].obtainedMarks = 10
          /\ submissions'[sid].percentage = 10000
          /\ submissions'[sid].isPassed = TRUE
  /\ (ScenarioGraded(sid) /\ resp'.op = "approve" /\ resp'.sid = sid)
       => /\ resp'.code = "OK"
          /\ submissions'[sid].isCheckedByTeacher = TRUE

\* C8 as stated: after the Submit the submission is COMPLETED with
\* obtainedMarks = 5, percentage = 50.00, isPassed = false and
\* isCheckedByTeacher = false; grading the long answer with 5 gives 10,
\* 100.00, passed; ApproveReview then succeeds.
C8_EndToEnd_AsStated ==
  [][\A sid \in DOMAIN submissions : ScenarioSteps(sid, FALSE)]_vars

\* C8 amended: the same scenario, where the Submit stores isPassed = true
\* (5 obtained marks reach the 5 passing marks).
C8_EndToEnd ==
  [][\A sid \in DOMAIN submissions : ScenarioSteps(sid, TRUE)]_vars

\* C8 witness: the end of the scenario, approved with 10 marks.
C8_Witness ==
  /\ resp.op = "approve"
  /\ resp.code = "OK"
  /\ ScenarioConfig
  /\ ScenarioAnswers(resp.sid, 5)
  /\ submissions[resp.sid].isCheckedByTeacher
  /\ submissions[resp.sid].obtainedMarks = 10
  /\ submissions[resp.sid].percentage = 10000
  /\ submissions[resp.sid].isPassed

\* C9: with randomizeQuestions = true, two consecutive successful
\* StartAttempt calls for the same submission (the second one resumes it)
\* return the same question order: the order given when the attempt was
\* created is the order given on resume.
C9_FrozenQuestionOrder ==
  [][(/\ assessment.randomizeQuestions
      /\ resp.op = "start" /\ resp.code = "OK"
      /\ resp'.op = "start" /\ resp'.code = "OK"
      /\ resp'.sid = resp.sid)
       => resp'.order = resp.order]_vars

----------------------------------------------------------------------------
(* Properties under interleaving *)

\* C4: once a submission's isCheckedByTeacher is true it is true in every
\* later state, under any interleaving of the store statements of
\* StartAttempt, SaveAnswer, Submit, GradeAnswer and ApproveReview requests.
C4_ApprovalIrreversible ==
  [][\A i \in DOMAIN submissions :
       submissions[i].isCheckedByTeacher
         => submissions'[i].isCheckedByTeacher]_vars

====
